---- MODULE Spec2Model ----
(***************************************************************************)
(* A model of mcp-vibekanban: the resource SubscriptionManager             *)
(* (src/src/resources.ts), the send_message tool handler                   *)
(* (src/unnamed/part_004) and the execution tracker (src/src/tasks.ts).    *)
(*                                                                         *)
(* JavaScript runs every handler on one event loop: a handler runs without *)
(* interruption up to its next await, so one action of the model is one    *)
(* handler, or the stretch of an async function between two awaits.        *)
(* Strings the code inspects character by character (resource URIs, error  *)
(* texts) are tuples of one-character strings.                              *)
(***************************************************************************)
EXTENDS Integers, Sequences, FiniteSets, TLC

\* ------------------------------------------------------------------------
\* Bounds of the model
\* ------------------------------------------------------------------------

\* Timer ticks (calls of checkForChanges) in one behaviour.
MaxTicks == 3

\* ------------------------------------------------------------------------
\* Strings
\* ------------------------------------------------------------------------

StartsWith(s, p) == Len(s) >= Len(p) /\ SubSeq(s, 1, Len(p)) = p

EndsWith(s, p) == Len(s) >= Len(p) /\ SubSeq(s, Len(s) - Len(p) + 1, Len(s)) = p

\* String.prototype.includes
Includes(s, t) ==
    \E i \in 1..(Len(s) - Len(t) + 1) : SubSeq(s, i, i + Len(t) - 1) = t

UpperLetters ==
    <<"A","B","C","D","E","F","G","H","I","J","K","L","M",
      "N","O","P","Q","R","S","T","U","V","W","X","Y","Z">>

LowerLetters ==
    <<"a","b","c","d","e","f","g","h","i","j","k","l","m",
      "n","o","p","q","r","s","t","u","v","w","x","y","z">>

\* One character folded to lower case (the i flag of a regular expression).
LowerChar(c) ==
    IF \E k \in 1..26 : UpperLetters[k] = c
    THEN LowerLetters[CHOOSE k \in 1..26 : UpperLetters[k] = c]
    ELSE c

LowerCase(s) == [i \in 1..Len(s) |-> LowerChar(s[i])]

\* ------------------------------------------------------------------------
\* Resource URIs (src/src/resources.ts)
\* ------------------------------------------------------------------------

\* 'vibe://tasks', 'vibe://context' and the literal parts of the patterns.
TasksChars == <<"v","i","b","e",":","/","/","t","a","s","k","s">>

ContextChars == <<"v","i","b","e",":","/","/","c","o","n","t","e","x","t">>

TasksPrefix == TasksChars \o <<"/">>

SessionsPrefix == <<"v","i","b","e",":","/","/","s","e","s","s","i","o","n","s","/">>

QueueSuffix == <<"/","q","u","e","u","e">>

\* The character class [0-9a-f-] under the i flag.
IsHexDash(c) ==
    LowerChar(c) \in {"0","1","2","3","4","5","6","7","8","9",
                      "a","b","c","d","e","f","-"}

\* ([0-9a-f-]+) matched against the whole of s
MatchId(s) == Len(s) >= 1 /\ \A i \in 1..Len(s) : IsHexDash(s[i])

ParsedNull == [type |-> "null"]

\* parseResourceUri without the pattern of the queue, and with a pattern of
\* the session that lets the slash and the letters of the queue through.
ParseCharsNoQueue(uri) ==
    IF uri = TasksChars THEN [type |-> "tasks"]
    ELSE IF uri = ContextChars THEN [type |-> "context"]
    ELSE IF /\ StartsWith(LowerCase(uri), TasksPrefix)
            /\ MatchId(SubSeq(uri, Len(TasksPrefix) + 1, Len(uri)))
         THEN [type |-> "task",
               taskId |-> SubSeq(uri, Len(TasksPrefix) + 1, Len(uri))]
    ELSE IF /\ StartsWith(LowerCase(uri), SessionsPrefix)
            /\ \A i \in (Len(SessionsPrefix) + 1)..Len(uri) :
                   IsHexDash(uri[i]) \/ LowerChar(uri[i]) \in {"/","q","u"}
            /\ Len(uri) > Len(SessionsPrefix)
         THEN [type |-> "session",
               sessionId |-> SubSeq(uri, Len(SessionsPrefix) + 1, Len(uri))]
    ELSE ParsedNull

\* resources.ts:39-53, on the characters of the URI.
ParseChars(uri) ==
    IF uri = TasksChars THEN [type |-> "tasks"]
    ELSE IF uri = ContextChars THEN [type |-> "context"]
    ELSE IF /\ StartsWith(LowerCase(uri), TasksPrefix)
            /\ MatchId(SubSeq(uri, Len(TasksPrefix) + 1, Len(uri)))
         THEN [type |-> "task",
               taskId |-> SubSeq(uri, Len(TasksPrefix) + 1, Len(uri))]
    ELSE IF /\ StartsWith(LowerCase(uri), SessionsPrefix)
            /\ EndsWith(LowerCase(uri), QueueSuffix)
            /\ MatchId(SubSeq(uri, Len(SessionsPrefix) + 1,
                              Len(uri) - Len(QueueSuffix)))
         THEN [type |-> "queue",
               sessionId |-> SubSeq(uri, Len(SessionsPrefix) + 1,
                                    Len(uri) - Len(QueueSuffix))]
    ELSE IF /\ StartsWith(LowerCase(uri), SessionsPrefix)
            /\ MatchId(SubSeq(uri, Len(SessionsPrefix) + 1, Len(uri)))
         THEN [type |-> "session",
               sessionId |-> SubSeq(uri, Len(SessionsPrefix) + 1, Len(uri))]
    ELSE ParsedNull

\* The URIs of the model: the task list, the queue of one session, and a
\* URI that matches none of the five patterns.
UriTasks == "vibe://tasks"

UriQueue == "vibe://sessions/a1/queue"

UriBad == "vibe://nope"

Uris == {UriTasks, UriQueue, UriBad}

\* The characters of each URI of the model.
Chars(uri) ==
    CASE uri = UriTasks -> TasksChars
      [] uri = UriQueue -> SessionsPrefix \o <<"a","1">> \o QueueSuffix
      [] uri = UriBad -> <<"v","i","b","e",":","/","/","n","o","p","e">>

parseResourceUri(uri) == ParseChars(Chars(uri))

\* ------------------------------------------------------------------------
\* Fetched content and its fingerprint (resources.ts:132-134)
\* ------------------------------------------------------------------------

\* What the Gateway answers: a JSON text, i.e. a value and the layout it is
\* written in. VibeClient.request parses the text (JSON.parse drops the
\* layout) and hands the value on.
Values == {"a", "b"}

Layouts == {"compact", "spaced"}

Payloads == Values \X Layouts

JSONparse(payload) == payload[1]

\* JSON.stringify(data): the canonical text of the value.
JSONstringify(data) == <<"json", data>>

\* createHash('sha256').update(json).digest('hex'); taken as collision free.
createHash(json) == <<"sha256", json>>

\* A value that is no fingerprint: what Map.get returns for a missing key.
undefined == <<"undefined">>

NULL == "null"

\* ------------------------------------------------------------------------
\* State
\* ------------------------------------------------------------------------

VARIABLES
    \* SubscriptionManager (resources.ts:85-87)
    subscriptions,  \* the Set, as the sequence of its entries in insertion order
    lastHashes,     \* the Map uri -> fingerprint; undefined where it has no entry
    pollTimer,      \* NULL, or the interval setInterval returned
    \* the event loop
    timers,         \* the intervals that are set and not cleared
    cycles,         \* the calls of checkForChanges suspended at an await; stale
                    \* (history) marks one whose URI was unsubscribed meanwhile
    exited,         \* process.exit was called
    clientUris,     \* the URIs the clients of this behaviour name in requests
    client,         \* the VibeClient of the build: "spawnSync" or "fetch"
    \* history, read by the properties only
    ticks,          \* how many times a timer has fired
    polls,          \* per tick, its last comparison for Observed, kept while
                    \* Observed has never been unsubscribed
    pending,        \* Observed was subscribed ("fresh", "resub") and not compared since
    everUnsub,      \* unsubscribe(Observed) was called
    lastCall,       \* the request to subscribe or unsubscribe Observed that
                    \* made this state, and whether the state it was made in
                    \* was made by the same request
    failedAt,       \* the fetches of Observed that were rejected: the tick of
                    \* the cycle, and how many ticks had fired by then; kept
                    \* as polls is
    \* send_message (unnamed/part_004:496-566)
    call,           \* the invocation of the handler: its place and its locals
    requests,       \* the Gateway requests the invocation has issued, in order
    \* the execution tracker (tasks.ts:83-167)
    tracker,        \* the call of pollExecutionProcess: its place and its locals
    record,         \* the tracking record in the task store
    aborted,        \* extra.signal.aborted
    allRunning,     \* history: every iteration so far observed status running
    response,       \* what taskAwareSendMessage has returned to its caller
    progressToken,  \* extra._meta?.progressToken of the tracked call
    lastEmit,       \* history: how the last call of p.emit went
    \* executor profiles (client.ts:168-185, 246-249)
    profiles,       \* an executor name and the profiles the client built of it
    \* createTask and updateTask of the client (client.ts:142-161, 192-212)
    taskCall,       \* the call: its place, its text, the requests it has issued
    \* the CallTool handler of the server (worker.ts:125-146)
    toolCall,       \* the call: its place, the tool, how it ended
    \* getRepoId of the client (client.ts:34-67)
    repo,           \* the locked id, the cached id, the calls of getRepoId
    \* HTTP mode (worker.ts:175-229)
    http,           \* the sessions of the Map, and the manager made for each
    \* the ReadResource handler (resources.ts:205-215)
    read            \* the read: its place, the URI, the requests it has issued

subVars ==
    <<subscriptions, lastHashes, pollTimer, timers, cycles, exited,
      clientUris, client, ticks, polls, pending, everUnsub, failedAt,
      lastCall>>

sendVars == <<call, requests>>

emitVars == <<progressToken, lastEmit>>

trackVars == <<tracker, record, aborted, allRunning, response, emitVars>>

profileVars == <<profiles>>

toolVars == <<toolCall>>

repoVars == <<repo>>

httpVars == <<http>>

readVars == <<read>>

serverVars == <<toolVars, repoVars, httpVars, readVars>>

clientVars == <<taskCall, serverVars>>

vars == <<subVars, sendVars, trackVars, profileVars, clientVars>>

\* src/src/api/client.ts:95 runs curl with spawnSync, unnamed/part_007:76
\* awaits fetch.
Clients == {"spawnSync", "fetch"}

TimerIds == {"interval1", "interval2"}

Ticks == 1..MaxTicks

NoPoll == [none |-> TRUE]

\* The URI whose polls and notifications the history variables record; the
\* other URIs are subscribed, polled and unsubscribed around it.
Observed == UriTasks

\* ------------------------------------------------------------------------
\* SubscriptionManager (src/src/resources.ts:84-146)
\* ------------------------------------------------------------------------

Has(seq, x) == \E i \in 1..Len(seq) : seq[i] = x

IndexOf(seq, x) == CHOOSE i \in 1..Len(seq) : seq[i] = x

\* Set.prototype.add: appended unless present.
SetAdd(seq, x) == IF Has(seq, x) THEN seq ELSE Append(seq, x)

\* Set.prototype.delete
SetDelete(seq, x) ==
    IF Has(seq, x)
    THEN SubSeq(seq, 1, IndexOf(seq, x) - 1)
             \o SubSeq(seq, IndexOf(seq, x) + 1, Len(seq))
    ELSE seq

\* A Set iterator keeps its place when an entry is deleted: an iterator that
\* has consumed idx entries has consumed one less of the remaining sequence
\* when the deleted entry was among them.
IterAfterDelete(seq, x, idx) ==
    IF Has(seq, x) /\ IndexOf(seq, x) <= idx THEN idx - 1 ELSE idx

\* client.ts:95. With the spawnSync client the request of a fetch blocks the
\* event loop and its await resumes before any other task: while a cycle is
\* at its fetch, no timer fires and no request or signal is handled.
Blocking == client = "spawnSync" /\ \E c \in cycles : c.pc = "fetch"

\* resources.ts:111-116. The timer state after stopPolling().
\* stopPolling without the clearInterval of line 113.
stopPollingKeepsInterval ==
    /\ pollTimer' = NULL
    /\ UNCHANGED timers

stopPolling ==
    IF pollTimer # NULL
    THEN /\ timers' = timers \ {pollTimer}
         /\ pollTimer' = NULL
    ELSE UNCHANGED <<timers, pollTimer>>

\* resources.ts:118-124. setInterval returns a new interval.
startPolling ==
    \E id \in TimerIds \ timers :
        /\ id = "interval1" \/ "interval1" \in timers
        /\ timers' = timers \cup {id}
        /\ pollTimer' = id

NoCall == [op |-> "none", again |-> FALSE]

\* The history of a call op made with Observed.
Called(op) == [op |-> op, again |-> lastCall.op = op]

\* SubscribeStartsTimer without the test of the timer.
SubscribeStartsTimerAlways(timer) == TRUE

\* resources.ts:98
SubscribeStartsTimer(timer) == timer = NULL

\* resources.ts:96-101
subscribe(uri) ==
    /\ ~exited
    /\ ~Blocking
    /\ subscriptions' = SetAdd(subscriptions, uri)
    /\ IF SubscribeStartsTimer(pollTimer)
       THEN startPolling
       ELSE UNCHANGED <<timers, pollTimer>>
    /\ pending' =
           IF uri # Observed \/ Has(subscriptions, uri) THEN pending
           ELSE IF everUnsub THEN "resub" ELSE "fresh"
    /\ UNCHANGED <<lastHashes, cycles, exited, clientUris, client, ticks, polls, everUnsub>>
    /\ UNCHANGED <<failedAt, sendVars, trackVars, profileVars, clientVars>>

\* UnsubscribeStopsTimer testing the size the set had before the delete.
UnsubscribeStopsTimerEarly(subs) == Len(subs) <= 1

\* resources.ts:106
UnsubscribeStopsTimer(subs) == Len(subs) = 0

\* resources.ts:103-109
unsubscribe(uri) ==
    /\ ~exited
    /\ ~Blocking
    /\ subscriptions' = SetDelete(subscriptions, uri)
    /\ lastHashes' = [lastHashes EXCEPT ![uri] = undefined]
    /\ IF UnsubscribeStopsTimer(subscriptions')
       THEN stopPolling
       ELSE UNCHANGED <<timers, pollTimer>>
    /\ cycles' = {[c EXCEPT !.idx = IterAfterDelete(subscriptions, uri, c.idx),
                             !.stale = c.stale \/ c.uri = uri]
                    : c \in cycles}
    /\ pending' = IF uri = Observed THEN "no" ELSE pending
    /\ everUnsub' = (everUnsub \/ uri = Observed)
    /\ polls' = IF uri = Observed THEN [t \in Ticks |-> NoPoll] ELSE polls
    /\ UNCHANGED <<exited, clientUris, client, ticks>>
    /\ failedAt' = IF uri = Observed THEN {} ELSE failedAt
    /\ UNCHANGED <<sendVars, trackVars, profileVars, clientVars>>

\* resources.ts:128. parseResourceUri of each URI of the model, as a table.
ParsedUris == [u \in Uris |-> parseResourceUri(u)]

\* NextToFetch with a return in the place of the continue of line 130: the
\* loop ends at the first entry that does not parse.
NextToFetchReturns(subs, idx) ==
    IF idx >= Len(subs) THEN 0
    ELSE IF ParsedUris[subs[idx + 1]] = ParsedNull THEN 0 ELSE idx + 1

\* resources.ts:127-130. The place in subs of the next entry that parses,
\* for an iterator that has consumed idx entries; 0 when the loop ends.
RECURSIVE NextToFetch(_, _)
NextToFetch(subs, idx) ==
    IF idx >= Len(subs) THEN 0
    ELSE IF ParsedUris[subs[idx + 1]] = ParsedNull
         THEN NextToFetch(subs, idx + 1)
         ELSE idx + 1

\* The loop of checkForChanges run on from a cycle that has consumed idx
\* entries: suspended at the fetch of the next URI that parses, or ended.
Resume(rest, tick, idx) ==
    LET n == NextToFetch(subscriptions, idx) IN
    IF n = 0 THEN rest
    ELSE rest \cup {[tick |-> tick, idx |-> n, pc |-> "fetch",
                     uri |-> subscriptions[n],
                     hash |-> undefined, lastHash |-> undefined,
                     stale |-> FALSE]}

\* resources.ts:119-123 and 126-132. A timer fires: checkForChanges runs
\* up to its first await.
Tick ==
    /\ ~exited
    /\ ~Blocking
    /\ timers # {}
    /\ ticks < MaxTicks
    /\ ticks' = ticks + 1
    /\ cycles' = Resume(cycles, ticks + 1, 0)
    /\ UNCHANGED <<subscriptions, lastHashes, pollTimer, timers, exited,
                   clientUris, client, polls, pending, everUnsub>>
    /\ lastCall' = NoCall
    /\ UNCHANGED <<failedAt, sendVars, trackVars, profileVars, clientVars>>

\* ShouldNotify without the test that a fingerprint was stored.
ShouldNotifyAnyDifference(lastHash, hash) == lastHash # hash

\* resources.ts:137
ShouldNotify(lastHash, hash) == lastHash # undefined /\ lastHash # hash

\* The comparison a cycle makes, as the history keeps it: the text that was
\* fingerprinted, and whether sendResourceUpdated was called.
Comparison(json, emitted) == [json |-> json, emitted |-> emitted]

\* resources.ts:132-140. The fetch a cycle awaits resolves with a payload:
\* the cycle fingerprints it, compares, and either calls sendResourceUpdated
\* (and is suspended on it) or stores the fingerprint and moves on.
FetchResolved(c, payload) ==
    LET json == JSONstringify(JSONparse(payload))
        hash == createHash(json)
        lastHash == lastHashes[c.uri]
    IN
    /\ ~exited
    /\ c.pc = "fetch"
    /\ IF ShouldNotify(lastHash, hash)
       THEN /\ cycles' = (cycles \ {c})
                            \cup {[c EXCEPT !.pc = "send", !.hash = hash,
                                             !.lastHash = lastHash]}
            /\ UNCHANGED lastHashes
       ELSE /\ lastHashes' = [lastHashes EXCEPT ![c.uri] = hash]
            /\ cycles' = Resume(cycles \ {c}, c.tick, c.idx)
    /\ polls' =
           IF c.uri # Observed \/ everUnsub THEN polls
           ELSE [polls EXCEPT ![c.tick] =
                    Comparison(json, ShouldNotify(lastHash, hash))]
    /\ pending' = IF c.uri = Observed /\ ~c.stale THEN "no" ELSE pending
    /\ UNCHANGED <<subscriptions, pollTimer, timers, exited, clientUris,
                   client, ticks, everUnsub>>
    /\ lastCall' = NoCall
    /\ UNCHANGED <<failedAt, sendVars, trackVars, profileVars, clientVars>>

\* FetchRejected with the try statement around the loop: the cycle ends.
FetchRejectedEndsCycle(c) ==
    /\ ~exited
    /\ c.pc = "fetch"
    /\ cycles' = cycles \ {c}
    /\ UNCHANGED <<subscriptions, lastHashes, pollTimer, timers, exited,
                   clientUris, client, ticks, polls, pending, everUnsub>>
    /\ failedAt' =
           IF c.uri # Observed \/ everUnsub THEN failedAt
           ELSE failedAt \cup {[tick |-> c.tick, at |-> ticks]}
    /\ lastCall' = NoCall
    /\ UNCHANGED <<sendVars, trackVars, profileVars, clientVars>>

\* resources.ts:141-143. The fetch rejects: the catch block skips the URI.
FetchRejected(c) ==
    /\ ~exited
    /\ c.pc = "fetch"
    /\ cycles' = Resume(cycles \ {c}, c.tick, c.idx)
    /\ UNCHANGED <<subscriptions, lastHashes, pollTimer, timers, exited,
                   clientUris, client, ticks, polls, pending, everUnsub>>
    /\ failedAt' =
           IF c.uri # Observed \/ everUnsub THEN failedAt
           ELSE failedAt \cup {[tick |-> c.tick, at |-> ticks]}
    /\ lastCall' = NoCall
    /\ UNCHANGED <<sendVars, trackVars, profileVars, clientVars>>

\* resources.ts:138-140. sendResourceUpdated resolves: the fingerprint is stored.
SendResolved(c) ==
    /\ ~exited
    /\ ~Blocking
    /\ c.pc = "send"
    /\ lastHashes' = [lastHashes EXCEPT ![c.uri] = c.hash]
    /\ cycles' = Resume(cycles \ {c}, c.tick, c.idx)
    /\ UNCHANGED <<subscriptions, pollTimer, timers, exited, clientUris,
                   client, ticks, polls, pending, everUnsub>>
    /\ lastCall' = NoCall
    /\ UNCHANGED <<failedAt, sendVars, trackVars, profileVars, clientVars>>

\* SendRejected with line 140 in a finally block: the fingerprint is stored
\* although the send was rejected.
SendRejectedStores(c) ==
    /\ ~exited
    /\ ~Blocking
    /\ c.pc = "send"
    /\ lastHashes' = [lastHashes EXCEPT ![c.uri] = c.hash]
    /\ cycles' = Resume(cycles \ {c}, c.tick, c.idx)
    /\ UNCHANGED <<subscriptions, pollTimer, timers, exited, clientUris,
                   client, ticks, polls, pending, everUnsub>>
    /\ lastCall' = NoCall
    /\ UNCHANGED <<failedAt, sendVars, trackVars, profileVars, clientVars>>

\* resources.ts:138 and 141-143. sendResourceUpdated rejects: line 140 is skipped.
SendRejected(c) ==
    /\ ~exited
    /\ ~Blocking
    /\ c.pc = "send"
    /\ cycles' = Resume(cycles \ {c}, c.tick, c.idx)
    /\ UNCHANGED <<subscriptions, lastHashes, pollTimer, timers, exited,
                   clientUris, client, ticks, polls, pending, everUnsub>>
    /\ lastCall' = NoCall
    /\ UNCHANGED <<failedAt, sendVars, trackVars, profileVars, clientVars>>

\* worker.ts:234-237. SIGINT in STDIO mode: stopPolling(), then the process
\* exits: nothing of it runs any more, and its history ends.
SigInt ==
    /\ ~exited
    /\ ~Blocking
    /\ stopPolling
    /\ exited' = TRUE
    /\ cycles' = {}
    /\ ticks' = 0
    /\ polls' = [t \in Ticks |-> NoPoll]
    /\ pending' = "no"
    /\ everUnsub' = FALSE
    /\ UNCHANGED <<subscriptions, lastHashes, clientUris, client>>
    /\ failedAt' = {}
    /\ UNCHANGED <<sendVars, trackVars, profileVars, clientVars>>
    /\ lastCall' = NoCall

\* resources.ts:111-116, stopPolling() called on the manager by its owner
\* while the process goes on.
StopPollingCall ==
    /\ ~exited
    /\ ~Blocking
    /\ stopPolling
    /\ UNCHANGED <<subscriptions, lastHashes, cycles, exited, clientUris, client,
                   ticks, polls, pending, everUnsub>>
    /\ lastCall' = NoCall
    /\ UNCHANGED <<failedAt, sendVars, trackVars, profileVars, clientVars>>

\* ------------------------------------------------------------------------
\* send_message (src/unnamed/part_004:473-566)
\* ------------------------------------------------------------------------

\* null, as the executor of a session that has run nothing.
JsNull == <<"null">>

\* Truthy taking the empty string for true.
TruthyEmptyString(x) == x \notin {undefined, JsNull}

\* What JavaScript takes for true in a condition, of the values met here.
Truthy(x) == x \notin {undefined, JsNull, <<>>}

UpperChar(c) ==
    IF \E k \in 1..26 : LowerLetters[k] = c
    THEN UpperLetters[CHOOSE k \in 1..26 : LowerLetters[k] = c]
    ELSE c

\* The white space String.prototype.trim removes, of the characters met here.
WhiteSpace == {" ", "\t"}

RECURSIVE Trim(_)
Trim(s) ==
    IF s = <<>> THEN s
    ELSE IF Head(s) \in WhiteSpace THEN Trim(Tail(s))
    ELSE IF s[Len(s)] \in WhiteSpace THEN Trim(SubSeq(s, 1, Len(s) - 1))
    ELSE s

\* s.replace(/-/g, '_')
ReplaceHyphens(s) == [i \in 1..Len(s) |-> IF s[i] = "-" THEN "_" ELSE s[i]]

\* s.toUpperCase()
ToUpperCase(s) == [i \in 1..Len(s) |-> UpperChar(s[i])]

\* client.ts:246-249
buildExecutorProfileUntrimmed(executor, variant) ==
    LET normalized == ToUpperCase(ReplaceHyphens(executor))
    IN [executor |-> normalized,
        variant |-> IF Truthy(variant) THEN variant ELSE undefined]

buildExecutorProfile(executor, variant) ==
    LET normalized == ToUpperCase(ReplaceHyphens(Trim(executor)))
    IN [executor |-> normalized,
        variant |-> IF Truthy(variant) THEN variant ELSE undefined]

\* The arguments of a call as the client sends them.
ExecutorArgs == {undefined, <<>>, <<" ","a","-","b">>}

VariantArgs == {undefined, <<"P","L","A","N">>}

AutoQueueArgs == {"true", "false", "omitted"}

\* part_004:490 (z.string().min(1))
PromptArgs == {<<"h","i">>, <<"g","o">>}

RawArgs ==
    [prompt : PromptArgs, executor : ExecutorArgs, variant : VariantArgs,
     auto_queue : AutoQueueArgs]

\* part_004:493 (z.boolean().optional().default(true)), applied by the
\* CallTool handler (worker.ts:137) before the tool handler runs.
inputSchemaParse(raw) ==
    [raw EXCEPT !.auto_queue = IF raw.auto_queue = "omitted" THEN "true" ELSE raw.auto_queue]

\* Session.executor (part_005:331: string | null)
SessionExecutors == {JsNull, <<"C","_","D">>}

\* What the Gateway answers to a request it refuses: an HTTP status and a
\* body with success false and this message.
GatewayMessages ==
    {<<"4","0","9"," ","c","o","n","f","l","i","c","t">>,
     <<"i","n","v","a","l","i","d"," ","r","e","q","u","e","s","t">>,
     <<"e","x","e","c","u","t","o","r"," ","b","u","s","y">>,
     <<"s","e","s","s","i","o","n"," ","i","s"," ","r","u","n","n","i","n","g">>,
     <<"C","o","n","f","l","i","c","t">>,
     <<>>}

HttpStatuses == {<<"2","0","0">>, <<"4","0","0">>, <<"4","0","9">>}

Refusals == [status : HttpStatuses, message : GatewayMessages]

UnsuccessfulResponse == 
    <<"A","P","I"," ","r","e","t","u","r","n","e","d"," ","u","n","s","u","c","c","e","s","s","f","u","l"," ","r","e","s","p","o","n","s","e">>

\* The Error that VibeClient.request throws for a refusal.
\* client.ts:95-127: curl runs without --fail, so the status is not looked
\* at; success false throws the message, which the catch wraps.
\* part_007:76-87: a status that is not ok throws status and body (of the
\* body the model keeps the message); success false throws the message.
RequestError(kind, refusal) ==
    LET message == IF refusal.message = <<>> THEN UnsuccessfulResponse
                   ELSE refusal.message
    IN IF kind = "spawnSync"
       THEN [message |-> <<"A","P","I"," ","e","r","r","o","r">> \o <<":", " ">> \o message]
       ELSE IF refusal.status # <<"2","0","0">>
            THEN [message |-> <<"A","P","I"," ","e","r","r","o","r">> \o <<" ">> \o refusal.status
                                 \o <<":", " ">> \o refusal.message]
            ELSE [message |-> message]

\* String(e) of an Error: its name, a colon and its message.
String(e) == <<"E","r","r","o","r",":"," ">> \o e.message

\* part_004:533-536
BusyTokens ==
    {<<"r","u","n","n","i","n","g">>,
     <<"b","u","s","y">>,
     <<"4","0","9">>,
     <<"c","o","n","f","l","i","c","t">>}

\* ShouldQueue without the test of auto_queue.
ShouldQueueWhateverAutoQueue(args, errorStr) ==
    \E t \in BusyTokens : Includes(errorStr, t)

\* part_004:531-537
ShouldQueue(args, errorStr) ==
    /\ args.auto_queue # "false"
    /\ \E t \in BusyTokens : Includes(errorStr, t)

\* part_005:15-44 and 49-88: the result of the call, of which the model
\* keeps whether it is an error, its heading and the message it carries.
formatSuccess(summary) == [isError |-> FALSE, heading |-> summary, message |-> <<>>]

\* formatError dropping the message it is given.
formatErrorWithoutMessage(type, message) ==
    [isError |-> TRUE, heading |-> type, message |-> <<>>]

formatError(type, message) == [isError |-> TRUE, heading |-> type, message |-> message]

\* A request without a body (client.ts:225-227: GET).
NoBody == [none |-> TRUE]

\* client.ts:229-235. A request as VibeClient.request is given it: the
\* operation and the body, which is posted as it is.
RequestWith(op, body) == [op |-> op, outcome |-> "pending", body |-> body]

Request(op) == RequestWith(op, NoBody)

\* part_004:515-518
sendFollowUpBody(args, executorProfile) ==
    [prompt |-> args.prompt, executor_profile_id |-> executorProfile]

\* queueMessageBody with a profile that has lost its variant.
queueMessageBodyNoVariant(args, executorProfile) ==
    [message |-> args.prompt,
     executor_profile_id |-> [executorProfile EXCEPT !.variant = undefined]]

\* part_004:540-543
queueMessageBody(args, executorProfile) ==
    [message |-> args.prompt, executor_profile_id |-> executorProfile]

\* The last request, settled.
Settle(reqs, outcome) == [reqs EXCEPT ![Len(reqs)].outcome = outcome]

Issued(op) == \E i \in 1..Len(requests) : requests[i].op = op

Done(result) == [call EXCEPT !.pc = "done", !.result = result]

\* The context a server hands to a tool handler: the request context of
\* the SDK with the task store of the server (worker.ts:97-111, 137-139),
\* or the empty object of the Workers entry (worker.ts:27-29).
Contexts == {"taskStore", "empty"}

\* part_004:496-500. The handler is called and awaits getSession. Its
\* only parameter is args: the context the server passes is not read.
Call(raw, extra) ==
    /\ call.pc \in {"idle", "done"}
    /\ call' = [pc |-> "getSession", raw |-> raw, args |-> inputSchemaParse(raw),
                extra |-> extra,
                session |-> undefined,
                executor |-> undefined, executorProfile |-> undefined,
                sendError |-> undefined, result |-> undefined]
    /\ requests' = <<Request("getSession")>>
    /\ UNCHANGED <<subVars, trackVars, profileVars, clientVars>>

\* part_004:500-518. getSession resolves: the executor is chosen, and
\* sendFollowUp is awaited unless there is none.
GetSessionResolved(sessionExecutor) ==
    LET executor == IF Truthy(call.args.executor) THEN call.args.executor
                    ELSE sessionExecutor
    IN
    /\ call.pc = "getSession"
    /\ IF ~Truthy(executor)
       THEN /\ call' = [Done(formatError("EXECUTOR_REQUIRED", <<>>))
                           EXCEPT !.session = sessionExecutor,
                                  !.executor = executor]
            /\ requests' = Settle(requests, "ok")
       ELSE /\ call' = [call EXCEPT
                           !.pc = "sendFollowUp",
                           !.session = sessionExecutor,
                           !.executor = executor,
                           !.executorProfile =
                               buildExecutorProfile(executor, call.args.variant)]
            /\ requests' =
                   Append(Settle(requests, "ok"),
                          RequestWith("sendFollowUp",
                              sendFollowUpBody(call.args,
                                  buildExecutorProfile(executor, call.args.variant))))
    /\ UNCHANGED <<subVars, trackVars, profileVars, clientVars>>

\* part_004:500 and 558-565. getSession rejects: the outer catch.
GetSessionRejected(refusal) ==
    /\ call.pc = "getSession"
    /\ call' = Done(formatError("SEND_FAILED", String(RequestError(client, refusal))))
    /\ requests' = Settle(requests, "error")
    /\ UNCHANGED <<subVars, trackVars, profileVars, clientVars>>

\* part_004:515-529
SendFollowUpResolved ==
    /\ call.pc = "sendFollowUp"
    /\ call' = Done(formatSuccess("Message Sent"))
    /\ requests' = Settle(requests, "ok")
    /\ UNCHANGED <<subVars, trackVars, profileVars, clientVars>>

\* part_004:530-557 and 558-565. sendFollowUp rejects: queueMessage is
\* awaited, or the error is thrown on to the outer catch.
SendFollowUpRejected(refusal) ==
    LET e == RequestError(client, refusal)
        errorStr == String(e)
    IN
    /\ call.pc = "sendFollowUp"
    /\ IF ShouldQueue(call.args, errorStr)
       THEN /\ call' = [call EXCEPT !.pc = "queueMessage", !.sendError = e]
            /\ requests' =
                   Append(Settle(requests, "error"),
                          RequestWith("queueMessage",
                              queueMessageBody(call.args, call.executorProfile)))
       ELSE /\ call' = [Done(formatError("SEND_FAILED", String(e)))
                           EXCEPT !.sendError = e]
            /\ requests' = Settle(requests, "error")
    /\ UNCHANGED <<subVars, trackVars, profileVars, clientVars>>

\* part_004:540-554
QueueMessageResolved ==
    /\ call.pc = "queueMessage"
    /\ call' = Done(formatSuccess("Message Queued"))
    /\ requests' = Settle(requests, "ok")
    /\ UNCHANGED <<subVars, trackVars, profileVars, clientVars>>

\* QueueMessageRejected asking once more before it gives up.
QueueMessageRejectedRetries(refusal) ==
    /\ call.pc = "queueMessage"
    /\ IF Len(requests) < 4
       THEN /\ call' = call
            /\ requests' =
                   Append(Settle(requests, "error"),
                          RequestWith("queueMessage",
                              queueMessageBody(call.args, call.executorProfile)))
       ELSE /\ call' = Done(formatError("SEND_FAILED",
                                         String(RequestError(client, refusal))))
            /\ requests' = Settle(requests, "error")
    /\ UNCHANGED <<subVars, trackVars, profileVars, clientVars>>

\* part_004:540 and 558-565. queueMessage rejects: the outer catch.
QueueMessageRejected(refusal) ==
    /\ call.pc = "queueMessage"
    /\ call' = Done(formatError("SEND_FAILED", String(RequestError(client, refusal))))
    /\ requests' = Settle(requests, "error")
    /\ UNCHANGED <<subVars, trackVars, profileVars, clientVars>>

SendInit ==
    /\ call = [pc |-> "idle", raw |-> undefined, args |-> undefined,
               extra |-> "empty",
               session |-> undefined,
               executor |-> undefined, executorProfile |-> undefined,
               sendError |-> undefined, result |-> undefined]
    /\ requests = <<>>

SendNext ==
    \/ \E raw \in RawArgs, extra \in Contexts : Call(raw, extra)
    \/ \E sessionExecutor \in SessionExecutors : GetSessionResolved(sessionExecutor)
    \/ \E refusal \in Refusals : GetSessionRejected(refusal)
    \/ SendFollowUpResolved
    \/ \E refusal \in Refusals : SendFollowUpRejected(refusal)
    \/ QueueMessageResolved
    \/ \E refusal \in Refusals : QueueMessageRejected(refusal)

\* ------------------------------------------------------------------------
\* The execution tracker (src/src/tasks.ts)
\* ------------------------------------------------------------------------

\* tasks.ts:25
MAX_POLL_ITERATIONS == 120

\* ExecutionProcessStatus (part_005:341) and a status the type does not
\* list: the status is read from the Gateway's JSON unchecked.
ProcessStatuses == {"running", "completed", "failed", "killed", "pending"}

NoStatus == "none"

\* mapStatus with killed taken for a failure.
mapStatusKilledFailed(vibeStatus) ==
    CASE vibeStatus = "running" -> "working"
      [] vibeStatus = "completed" -> "completed"
      [] vibeStatus = "failed" -> "failed"
      [] vibeStatus = "killed" -> "failed"
      [] OTHER -> "working"

\* tasks.ts:30-38
mapStatus(vibeStatus) ==
    CASE vibeStatus = "running" -> "working"
      [] vibeStatus = "completed" -> "completed"
      [] vibeStatus = "failed" -> "failed"
      [] vibeStatus = "killed" -> "cancelled"
      [] OTHER -> "working"

TrackerIdle ==
    [pc |-> "idle", i |-> 0, status |-> NoStatus, mcpStatus |-> NoStatus,
     exit |-> "none"]

\* tasks.ts:94-101 and 165-166. The head of the loop reached with counter i:
\* the awaited write of the timeout, of the cancellation, or the sleep.
LoopHead(i) ==
    [pc |-> IF i >= MAX_POLL_ITERATIONS THEN "updateTimedOut"
            ELSE IF aborted THEN "updateCancelled"
            ELSE "sleep",
     i |-> i, status |-> NoStatus, mcpStatus |-> NoStatus, exit |-> "none"]

\* The write a tracker awaits at each of its places: the status and the
\* status message it asks the store to record.
\* tasks.ts:97, 112, 126, 141, 156, 166
WriteOf(pc) ==
    CASE pc = "updateCancelled" -> [status |-> "cancelled", statusMessage |-> "Cancelled by client"]
      [] pc = "updateNotFound" -> [status |-> "failed", statusMessage |-> "Execution process not found"]
      [] pc = "storeCompleted" -> [status |-> "completed", statusMessage |-> "Execution Completed"]
      [] pc = "storeFailed" -> [status |-> "failed", statusMessage |-> "Execution Failed"]
      [] pc = "updateKilled" -> [status |-> "cancelled", statusMessage |-> "Execution killed"]
      [] pc = "updateTimedOut" -> [status |-> "failed", statusMessage |-> "Timed out after 10 minutes"]

WritePlaces ==
    {"updateCancelled", "updateNotFound", "storeCompleted", "storeFailed",
     "updateKilled", "updateTimedOut"}

\* The writes inside the try block of the iteration (tasks.ts:103-162).
CaughtPlaces == {"updateNotFound", "storeCompleted", "storeFailed", "updateKilled"}

\* part_005:255. The progress token of a call: none, or the one the client gave.
ProgressTokens == {undefined, <<"p","1">>}

\* tasks.ts:44-55. send_message hands the execution over, with the context
\* of the call: createTask is awaited.
taskAwareSendMessage(token) ==
    /\ tracker.pc = "idle"
    /\ tracker' = [tracker EXCEPT !.pc = "createTask"]
    /\ progressToken' = token
    /\ UNCHANGED <<record, aborted, allRunning, lastEmit>>
    /\ UNCHANGED <<response, subVars, sendVars, profileVars, clientVars>>

\* tasks.ts:62-76. The result of a tracked send: Message Sent (task-tracked).
TrackedResponse == [isError |-> FALSE, heading |-> "Message Sent (task-tracked)"]

NoResponse == [isError |-> FALSE, heading |-> "none"]

\* createTask rejects: taskAwareSendMessage rejects (tasks.ts:52).
RejectedResponse == [isError |-> TRUE, heading |-> "rejected"]

\* CreateTaskResolved awaiting pollExecutionProcess before it returns.
CreateTaskResolvedAwaitsTracker ==
    /\ tracker.pc = "createTask"
    /\ record' = [status |-> "working", statusMessage |-> ""]
    /\ tracker' = LoopHead(0)
    /\ UNCHANGED <<aborted, allRunning>>
    /\ response' = response
    /\ UNCHANGED <<emitVars, subVars, sendVars, profileVars, clientVars>>

\* tasks.ts:52-76 and 89-101. The record exists, in status working;
\* pollExecutionProcess is called and runs up to its first await; then
\* taskAwareSendMessage returns its result.
CreateTaskResolved ==
    /\ tracker.pc = "createTask"
    /\ record' = [status |-> "working", statusMessage |-> ""]
    /\ tracker' = LoopHead(0)
    /\ UNCHANGED <<aborted, allRunning>>
    /\ response' = TrackedResponse
    /\ UNCHANGED <<emitVars, subVars, sendVars, profileVars, clientVars>>

\* tasks.ts:52. createTask rejects and so does taskAwareSendMessage: no
\* tracker is started.
CreateTaskRejected ==
    /\ tracker.pc = "createTask"
    /\ tracker' = [tracker EXCEPT !.pc = "done", !.exit = "noRecord"]
    /\ UNCHANGED <<record, aborted, allRunning>>
    /\ response' = RejectedResponse
    /\ UNCHANGED <<emitVars, subVars, sendVars, profileVars, clientVars>>

\* The client cancels the original call: extra.signal is aborted.
Abort ==
    /\ tracker.pc \notin {"idle", "done"}
    /\ ~aborted
    /\ aborted' = TRUE
    /\ UNCHANGED <<tracker, record, allRunning>>
    /\ UNCHANGED <<response, emitVars, subVars, sendVars, profileVars, clientVars>>

\* tasks.ts:101-106
SleepResolved ==
    /\ tracker.pc = "sleep"
    /\ tracker' = [tracker EXCEPT !.pc = "getExecutionProcess"]
    /\ UNCHANGED <<record, aborted, allRunning>>
    /\ UNCHANGED <<response, emitVars, subVars, sendVars, profileVars, clientVars>>

\* tasks.ts:118-122. A process was obtained: its status is mapped and the
\* progress notification is awaited.
Observe(status) ==
    /\ tracker' = [tracker EXCEPT !.pc = "emit", !.status = status,
                                  !.mcpStatus = mapStatus(status)]
    /\ allRunning' = (allRunning /\ status = "running")

\* tasks.ts:106
GetExecutionProcessResolved(status) ==
    /\ tracker.pc = "getExecutionProcess"
    /\ Observe(status)
    /\ UNCHANGED <<record, aborted>>
    /\ UNCHANGED <<response, emitVars, subVars, sendVars, profileVars, clientVars>>

\* tasks.ts:106-109
GetExecutionProcessRejected ==
    /\ tracker.pc = "getExecutionProcess"
    /\ tracker' = [tracker EXCEPT !.pc = "listExecutionProcesses"]
    /\ UNCHANGED <<record, aborted, allRunning>>
    /\ UNCHANGED <<response, emitVars, subVars, sendVars, profileVars, clientVars>>

\* tasks.ts:109-116. The list resolves: found is the status of the process
\* in it, or NoStatus when the process is not in the list.
ListExecutionProcessesResolved(found) ==
    /\ tracker.pc = "listExecutionProcesses"
    /\ IF found = NoStatus
       THEN /\ tracker' = [tracker EXCEPT !.pc = "updateNotFound"]
            /\ allRunning' = FALSE
       ELSE Observe(found)
    /\ UNCHANGED <<record, aborted>>
    /\ UNCHANGED <<response, emitVars, subVars, sendVars, profileVars, clientVars>>

\* tasks.ts:109 and 159-162. The list rejects: the catch block, and the
\* next iteration.
ListExecutionProcessesRejected ==
    /\ tracker.pc = "listExecutionProcesses"
    /\ tracker' = LoopHead(tracker.i + 1)
    /\ allRunning' = FALSE
    /\ UNCHANGED <<record, aborted>>
    /\ UNCHANGED <<response, emitVars, subVars, sendVars, profileVars, clientVars>>

\* tasks.ts:124-158. p.emit has returned: a terminal status is written,
\* any other status goes on to the next iteration.
AfterEmit ==
    IF tracker.mcpStatus = "completed" THEN [tracker EXCEPT !.pc = "storeCompleted"]
    ELSE IF tracker.mcpStatus = "failed" THEN [tracker EXCEPT !.pc = "storeFailed"]
    ELSE IF tracker.mcpStatus = "cancelled" THEN [tracker EXCEPT !.pc = "updateKilled"]
    ELSE LoopHead(tracker.i + 1)

\* part_005:259. No progress token: emit returns at once.
EmitSkipped ==
    /\ tracker.pc = "emit"
    /\ progressToken = undefined
    /\ tracker' = AfterEmit
    /\ lastEmit' = "noToken"
    /\ UNCHANGED <<record, aborted, allRunning, progressToken>>
    /\ UNCHANGED <<response, subVars, sendVars, profileVars, clientVars>>

\* part_005:261-265. sendNotification resolves.
EmitResolved ==
    /\ tracker.pc = "emit"
    /\ progressToken # undefined
    /\ tracker' = AfterEmit
    /\ lastEmit' = "resolved"
    /\ UNCHANGED <<record, aborted, allRunning, progressToken>>
    /\ UNCHANGED <<response, subVars, sendVars, profileVars, clientVars>>

\* EmitRejected without the catch block of emit: the error is thrown into
\* the iteration, whose catch block goes on to the next one.
EmitRejectedThrows ==
    /\ tracker.pc = "emit"
    /\ progressToken # undefined
    /\ tracker' = LoopHead(tracker.i + 1)
    /\ lastEmit' = "rejected"
    /\ UNCHANGED <<record, aborted, allRunning, progressToken>>
    /\ UNCHANGED <<response, subVars, sendVars, profileVars, clientVars>>

\* part_005:261-268. sendNotification rejects: emit swallows the error.
EmitRejected ==
    /\ tracker.pc = "emit"
    /\ progressToken # undefined
    /\ tracker' = AfterEmit
    /\ lastEmit' = "rejected"
    /\ UNCHANGED <<record, aborted, allRunning, progressToken>>
    /\ UNCHANGED <<response, subVars, sendVars, profileVars, clientVars>>

\* WriteResolved without the return that follows the write: the loop goes on.
WriteResolvedGoesOn ==
    /\ tracker.pc \in WritePlaces
    /\ record' = WriteOf(tracker.pc)
    /\ tracker' =
           IF tracker.pc = "updateTimedOut"
           THEN [tracker EXCEPT !.pc = "done", !.exit = tracker.pc]
           ELSE LoopHead(tracker.i + 1)
    /\ UNCHANGED <<aborted, allRunning>>
    /\ UNCHANGED <<response, emitVars, subVars, sendVars, profileVars, clientVars>>

\* tasks.ts:97-98, 112-113, 126-137, 141-152, 156-157, 166. The awaited
\* write resolves: the record holds what was written and the tracker returns.
WriteResolved ==
    /\ tracker.pc \in WritePlaces
    /\ record' = WriteOf(tracker.pc)
    /\ tracker' = [tracker EXCEPT !.pc = "done", !.exit = tracker.pc]
    /\ UNCHANGED <<aborted, allRunning>>
    /\ UNCHANGED <<response, emitVars, subVars, sendVars, profileVars, clientVars>>

\* WriteRejected without the try block of the iteration: every rejected
\* write rejects pollExecutionProcess.
WriteRejectedThrows ==
    /\ tracker.pc \in WritePlaces
    /\ tracker' = [tracker EXCEPT !.pc = "done", !.exit = "threw"]
    /\ UNCHANGED <<record, aborted, allRunning>>
    /\ UNCHANGED <<response, emitVars, subVars, sendVars, profileVars, clientVars>>

\* The awaited write rejects. Inside the try block (tasks.ts:159-162) the
\* error is logged and the loop goes on; at lines 97 and 166 it rejects
\* pollExecutionProcess, whose caller logs it (tasks.ts:58-60).
WriteRejected ==
    /\ tracker.pc \in WritePlaces
    /\ tracker' =
           IF tracker.pc \in CaughtPlaces THEN LoopHead(tracker.i + 1)
           ELSE [tracker EXCEPT !.pc = "done", !.exit = "threw"]
    /\ UNCHANGED <<record, aborted, allRunning>>
    /\ UNCHANGED <<response, emitVars, subVars, sendVars, profileVars, clientVars>>

TrackInit ==
    /\ response = NoResponse
    /\ progressToken = undefined
    /\ lastEmit = "none"
    /\ tracker = TrackerIdle
    /\ record = [status |-> "none", statusMessage |-> ""]
    /\ aborted = FALSE
    /\ allRunning = TRUE

TrackNext ==
    \/ \E token \in ProgressTokens : taskAwareSendMessage(token)
    \/ CreateTaskResolved
    \/ CreateTaskRejected
    \/ Abort
    \/ SleepResolved
    \/ \E status \in ProcessStatuses : GetExecutionProcessResolved(status)
    \/ GetExecutionProcessRejected
    \/ \E found \in ProcessStatuses \cup {NoStatus} : ListExecutionProcessesResolved(found)
    \/ ListExecutionProcessesRejected
    \/ EmitSkipped
    \/ EmitResolved
    \/ EmitRejected
    \/ WriteResolved
    \/ WriteRejected

\* ------------------------------------------------------------------------
\* Executor profiles: src/src/api/client.ts:168-185 and 246-249
\* ------------------------------------------------------------------------

MaxLen == 3

\* The characters of the executor names: white space, the hyphen, the
\* underscore, a letter in both cases.
ExecutorChars == {" ", "\t", "-", "_", "a", "A"}

RECURSIVE Strings(_)
Strings(n) ==
    IF n = 0 THEN {<<>>}
    ELSE Strings(n - 1) \cup
         {Append(s, c) : s \in {t \in Strings(n - 1) : Len(t) = n - 1},
                         c \in ExecutorChars}

ClaudeCodeHyphen == <<"c","l","a","u","d","e","-","c","o","d","e">>
ClaudeCodeUpper == <<"C","L","A","U","D","E","_","C","O","D","E">>
ClaudeCodeSpaced == <<" "," ","C","l","a","u","d","e","-","C","o","d","e"," ">>

ExecutorNames ==
    Strings(MaxLen) \cup {ClaudeCodeHyphen, ClaudeCodeUpper, ClaudeCodeSpaced}

\* client.ts:168-178: the executor_profile_id of the payload of
\* POST /api/task-attempts.
startWorkspaceSession(executor, variant) ==
    LET normalizedExecutor == ToUpperCase(ReplaceHyphens(Trim(executor)))
    IN IF Truthy(variant)
       THEN [executor |-> normalizedExecutor, variant |-> variant]
       ELSE [executor |-> normalizedExecutor, variant |-> undefined]

\* No profile built yet.
NoProfile == [executor |-> undefined, variant |-> undefined]

ProfileIdle ==
    [executor |-> undefined, variant |-> undefined, session |-> NoProfile,
     followUp |-> NoProfile, inherited |-> NoProfile]

\* start_workspace_session with an executor name, which its input schema
\* takes when it has a character (part_004:346, 354): the client builds the
\* profile of the new session.
StartSession ==
    /\ profiles.executor \notin {undefined, <<>>}
    /\ profiles.session = NoProfile
    /\ profiles' = [profiles EXCEPT
           !.session = startWorkspaceSession(profiles.executor, profiles.variant)]
    /\ UNCHANGED <<subVars, sendVars, trackVars, clientVars>>

\* send_message with the same name as its explicit executor
\* (part_004:501, 512).
FollowUpExplicit ==
    /\ profiles.executor # undefined
    /\ Truthy(profiles.executor)
    /\ profiles.followUp = NoProfile
    /\ profiles' = [profiles EXCEPT
           !.followUp = buildExecutorProfile(profiles.executor, profiles.variant)]
    /\ UNCHANGED <<subVars, sendVars, trackVars, clientVars>>

\* send_message without an executor, which takes the executor of the
\* session that StartSession opened (part_004:501, 512).
FollowUpInherited ==
    /\ profiles.session # NoProfile
    /\ Truthy(profiles.session.executor)
    /\ profiles.inherited = NoProfile
    /\ profiles' = [profiles EXCEPT
           !.inherited = buildExecutorProfile(profiles.session.executor,
                                              profiles.variant)]
    /\ UNCHANGED <<subVars, sendVars, trackVars, clientVars>>

ProfileInit == profiles = ProfileIdle

ProfileNext ==
    \/ StartSession
    \/ FollowUpExplicit
    \/ FollowUpInherited

\* ------------------------------------------------------------------------
\* Tasks of the client: src/src/api/client.ts:142-161 and 192-212
\* ------------------------------------------------------------------------

\* The characters of a description: the at sign, white space, two letters.
TextChars == {"@", " ", "a", "b"}

RECURSIVE Texts(_)
Texts(n) ==
    IF n = 0 THEN {<<>>}
    ELSE Texts(n - 1) \cup
         {Append(s, c) : s \in {t \in Texts(n - 1) : Len(t) = n - 1},
                         c \in TextChars}

\* The description argument: left out, or a text.
Descriptions == {undefined} \cup Texts(MaxLen)

\* [^\s@]
NameChar(c) == c \notin WhiteSpace \cup {"@"}

\* How many characters of text, from place i on, [^\s@]+ takes.
RECURSIVE NameLen(_, _)
NameLen(text, i) ==
    IF i > Len(text) \/ ~NameChar(text[i]) THEN 0
    ELSE 1 + NameLen(text, i + 1)

\* client.ts:193. text.match(/@([^\s@]+)/g) from place i on: the matches, in
\* order, each with its at sign.
RECURSIVE MatchesFrom(_, _)
MatchesFrom(text, i) ==
    IF i > Len(text) THEN <<>>
    ELSE IF text[i] = "@" /\ NameLen(text, i + 1) > 0
         THEN <<SubSeq(text, i, i + NameLen(text, i + 1))>>
                 \o MatchesFrom(text, i + NameLen(text, i + 1) + 1)
         ELSE MatchesFrom(text, i + 1)

\* client.ts:205. text.replace(new RegExp(pat, 'g'), content), pat without
\* special characters.
RECURSIVE ReplaceAll(_, _, _)
ReplaceAll(text, pat, content) ==
    IF Len(text) < Len(pat) THEN text
    ELSE IF StartsWith(text, pat)
         THEN content \o ReplaceAll(SubSeq(text, Len(pat) + 1, Len(text)), pat, content)
         ELSE <<Head(text)>> \o ReplaceAll(Tail(text), pat, content)

\* The tag directories GET /api/tags answers with.
TagDirectories ==
    { <<>>,
      <<[tag_name |-> <<"a">>, content |-> <<"X">>]>>,
      <<[tag_name |-> <<"a">>, content |-> <<>>],
        [tag_name |-> <<"b">>, content |-> <<"@","a">>]>>,
      <<[tag_name |-> <<"a">>, content |-> <<"X">>],
        [tag_name |-> <<"a">>, content |-> <<"Y","b">>]>> }

\* client.ts:198, 203. tagMap.get(tagName): a Map keeps the last entry of a key.
TagMapGet(tags, tagName) ==
    LET at == {i \in 1..Len(tags) : tags[i].tag_name = tagName}
    IN IF at = {} THEN undefined
       ELSE tags[CHOOSE i \in at : \A j \in at : j <= i].content

\* client.ts:200-207
RECURSIVE ExpandMatches(_, _, _)
ExpandMatches(result, matches, tags) ==
    IF matches = <<>> THEN result
    ELSE LET match == Head(matches)
             content == TagMapGet(tags, Tail(match))
         IN ExpandMatches(IF Truthy(content)
                          THEN ReplaceAll(result, match, content)
                          ELSE result,
                          Tail(matches), tags)

TaskIdle ==
    [pc |-> "idle", method |-> "none", text |-> undefined,
     description |-> undefined, tags |-> "none", requests |-> <<>>,
     result |-> "none"]

\* client.ts:142-143, 155-159 and 192-194. createTask or updateTask is
\* called: a description that is there and has a match awaits the tag
\* directory; any other goes to the request of the task itself.
TaskCall(method, description) ==
    /\ taskCall.pc \in {"idle", "done"}
    /\ taskCall' =
           IF Truthy(description) /\ MatchesFrom(description, 1) # <<>>
           THEN [TaskIdle EXCEPT !.pc = "tags", !.method = method,
                                 !.text = description,
                                 !.requests = <<"GET /api/tags">>]
           ELSE [TaskIdle EXCEPT
                    !.pc = "task", !.method = method, !.text = description,
                    !.description =
                        IF method = "createTask" /\ ~Truthy(description)
                        THEN undefined ELSE description,
                    !.requests = <<method>>]
    /\ UNCHANGED <<subVars, sendVars, trackVars, profileVars, serverVars>>

\* client.ts:197-208. The tag directory arrives: the matches are expanded
\* and the task is sent.
TagsResolved(tags) ==
    /\ taskCall.pc = "tags"
    /\ taskCall' = [taskCall EXCEPT
           !.pc = "task", !.tags = "ok",
           !.description = ExpandMatches(taskCall.text,
                                         MatchesFrom(taskCall.text, 1), tags),
           !.requests = Append(@, taskCall.method)]
    /\ UNCHANGED <<subVars, sendVars, trackVars, profileVars, serverVars>>

\* TagsRejected without the catch block of expandTags: the call fails.
TagsRejectedThrows ==
    /\ taskCall.pc = "tags"
    /\ taskCall' = [taskCall EXCEPT !.pc = "done", !.tags = "error",
                                    !.result = "error"]
    /\ UNCHANGED <<subVars, sendVars, trackVars, profileVars, serverVars>>

\* client.ts:209-211. The request of the tag directory fails: the text is
\* kept as it is and the task is sent.
TagsRejected ==
    /\ taskCall.pc = "tags"
    /\ taskCall' = [taskCall EXCEPT
           !.pc = "task", !.tags = "error",
           !.description = taskCall.text,
           !.requests = Append(@, taskCall.method)]
    /\ UNCHANGED <<subVars, sendVars, trackVars, profileVars, serverVars>>

\* client.ts:144-148, 160. The request of the task resolves.
TaskResolved ==
    /\ taskCall.pc = "task"
    /\ taskCall' = [taskCall EXCEPT !.pc = "done", !.result = "ok"]
    /\ UNCHANGED <<subVars, sendVars, trackVars, profileVars, serverVars>>

\* client.ts:144-148, 160. The request of the task rejects, and so does the call.
TaskRejected ==
    /\ taskCall.pc = "task"
    /\ taskCall' = [taskCall EXCEPT !.pc = "done", !.result = "error"]
    /\ UNCHANGED <<subVars, sendVars, trackVars, profileVars, serverVars>>

\* ------------------------------------------------------------------------
\* The CallTool handler (worker.ts:125-146) and the tool handlers (part_004)
\* ------------------------------------------------------------------------

\* allTools: each tool with the requests its handler awaits one after the
\* other when none fails (part_004:60, 108, 163, 203, 260, 303, 354-358,
\* 404, 448, 500-515, 586, 636).
ToolRequests ==
    "get_context" :> <<"getWorkspaceContext">> @@
    "list_tasks" :> <<"listTasks">> @@
    "create_task" :> <<"createTask">> @@
    "get_task" :> <<"getTask">> @@
    "update_task" :> <<"updateTask">> @@
    "delete_task" :> <<"deleteTask">> @@
    "start_workspace_session" :> <<"listRepositories", "startWorkspace">> @@
    "list_sessions" :> <<"listSessions">> @@
    "get_session" :> <<"getSession">> @@
    "send_message" :> <<"getSession", "sendFollowUp">> @@
    "get_queue_status" :> <<"getQueueStatus">> @@
    "cancel_queue" :> <<"cancelQueue">>

\* The names a client may call: the tools and a name that is none.
ToolNames == DOMAIN ToolRequests \cup {"no_such_tool"}

\* toolMap.get(name), worker.ts:127
toolMapHas(name) == name \in DOMAIN ToolRequests

\* The type of the error each handler's catch formats (part_004:73, 131,
\* 176, 214, 276, 315, 373, 421, 461, 559, 609, 648); the model keeps the
\* tool's name for it.
FailureType(name) == name

\* The error a request throws when no answer was had: client.ts:101-108
\* (curl could not run or exited non-zero), part_007:76 (fetch rejects).
TransportError(kind) ==
    IF kind = "spawnSync"
    THEN [message |-> <<"A","P","I"," ","e","r","r","o","r",":"," ","c","u","r","l">>]
    ELSE [message |-> <<"f","e","t","c","h"," ","f","a","i","l","e","d">>]

\* What a request can fail with: no answer, or an answer that refuses.
Failures == {[kind |-> "transport"]} \cup [kind : {"refused"}, refusal : Refusals]

FailureError(failure) ==
    IF failure.kind = "transport" THEN TransportError(client)
    ELSE RequestError(client, failure.refusal)

\* The ZodError of inputSchema.parse (worker.ts:137).
ZodError == [message |-> <<"Z","o","d">>]

Returned(result) == [outcome |-> "returned", result |-> result]

\* The catch of the CallTool handler throwing the error on.
CallToolRethrows(e) == [outcome |-> "raised", result |-> formatSuccess("none")]

\* worker.ts:140-145
CallToolCatch(e) == Returned([isError |-> TRUE, heading |-> "Validation failed",
                              message |-> String(e)])

\* worker.ts:129-134
UnknownTool(name) == Returned([isError |-> TRUE, heading |-> "Unknown tool",
                               message |-> <<>>])

ToolIdle == [pc |-> "idle", name |-> "none", input |-> "none", n |-> 0,
             failed |-> FALSE, last |-> "none",
             ended |-> Returned(formatSuccess("none"))]

ToolDone(name, input, ended) ==
    [pc |-> "done", name |-> name, input |-> input, n |-> 0,
     failed |-> FALSE, last |-> "none", ended |-> ended]

\* worker.ts:125-139. The handler is called: a name that is no tool and
\* an input the schema refuses end the call at once; get_context without a
\* workspace returns without a request (part_004:43-56); any other call
\* awaits the first request of the tool's handler.
CallTool(name, input, workspaceId) ==
    /\ toolCall.pc \in {"idle", "done"}
    /\ toolCall' =
           IF ~toolMapHas(name)
           THEN ToolDone(name, input, UnknownTool(name))
           ELSE IF input = "invalid"
           THEN ToolDone(name, input, CallToolCatch(ZodError))
           ELSE IF name = "get_context" /\ ~workspaceId
           THEN ToolDone(name, input, Returned(formatSuccess("Project Context")))
           ELSE [pc |-> "request", name |-> name, input |-> input, n |-> 1,
                 failed |-> FALSE, last |-> "none", ended |-> ToolIdle.ended]
    /\ UNCHANGED <<subVars, sendVars, trackVars, profileVars, taskCall, repoVars, httpVars, readVars>>

\* The request the handler awaits resolves: the next one is awaited, or
\* the handler returns formatSuccess and the CallTool handler returns it.
ToolRequestResolved ==
    /\ toolCall.pc = "request"
    /\ toolCall' =
           IF toolCall.n < Len(ToolRequests[toolCall.name]) /\ ~toolCall.failed
           THEN [toolCall EXCEPT !.n = toolCall.n + 1, !.last = "resolved"]
           ELSE [toolCall EXCEPT !.pc = "done", !.last = "resolved",
                                 !.ended = Returned(formatSuccess(toolCall.name))]
    /\ UNCHANGED <<subVars, sendVars, trackVars, profileVars, taskCall, repoVars, httpVars, readVars>>

\* The request the handler awaits throws: the handler's catch returns
\* formatError with String(e), except that send_message asks for the queue
\* when sendFollowUp was refused as busy (part_004:530-557).
ToolRequestRejected(failure) ==
    LET e == FailureError(failure)
        queues == /\ toolCall.name = "send_message"
                  /\ toolCall.n = 2
                  /\ ~toolCall.failed
                  /\ ShouldQueue([auto_queue |-> "true"], String(e))
    IN
    /\ toolCall.pc = "request"
    /\ toolCall' =
           IF queues
           THEN [toolCall EXCEPT !.failed = TRUE, !.last = "rejected"]
           ELSE [toolCall EXCEPT !.pc = "done", !.failed = TRUE, !.last = "rejected",
                                 !.ended = Returned(formatError(FailureType(toolCall.name),
                                                                String(e)))]
    /\ UNCHANGED <<subVars, sendVars, trackVars, profileVars, taskCall, repoVars, httpVars, readVars>>

ToolInit == toolCall = ToolIdle

ToolNext ==
    \/ \E name \in ToolNames, input \in {"valid", "invalid"}, workspaceId \in BOOLEAN :
          CallTool(name, input, workspaceId)
    \/ ToolRequestResolved
    \/ \E failure \in Failures : ToolRequestRejected(failure)

\* ------------------------------------------------------------------------
\* getRepoId (client.ts:46-67)
\* ------------------------------------------------------------------------

\* The calls of getRepoId that may be under way together: the one of
\* startWorkspaceSession (client.ts:169) of three calls of the tool.
RepoCalls == {1, 2, 3}

RepoA == <<"A">>
RepoB == <<"B">>
RepoLocked == <<"L">>

\* What the Gateway answers to the list of the project's repositories:
\* json.data, null when the answer has none.
RepoLists == {JsNull, <<>>, <<RepoA>>, <<RepoB>>, <<RepoA, RepoB>>}

\* The rejection of getRepoId.
RepoError == <<"error">>

RepoCallIdle == [pc |-> "idle", result |-> undefined]

\* client.ts:35-36, 42: repoId of the configuration, no id resolved.
RepoIdle(repoId) ==
    [repoId |-> repoId, resolved |-> JsNull, calls |-> [c \in RepoCalls |-> RepoCallIdle]]

\* The spawnSync of the list has the event loop until it has its answer.
RepoBlocking == client = "spawnSync" /\ \E c \in RepoCalls : repo.calls[c].pc = "list"

RepoReturn(c, result) == [repo.calls EXCEPT ![c] = [pc |-> "done", result |-> result]]

\* client.ts:65
RepoCache(id) == id

\* client.ts:47-51. getRepoId is called: the locked id or the cached id is
\* returned, or the repositories are asked for.
getRepoId(c) ==
    /\ repo.calls[c].pc \in {"idle", "done"}
    /\ ~RepoBlocking
    /\ repo' = [repo EXCEPT !.calls =
           IF Truthy(repo.repoId) THEN RepoReturn(c, repo.repoId)
           ELSE IF Truthy(repo.resolved) THEN RepoReturn(c, repo.resolved)
           ELSE [repo.calls EXCEPT ![c] = [pc |-> "list", result |-> undefined]]]
    /\ UNCHANGED <<subVars, sendVars, trackVars, profileVars, taskCall, toolVars, httpVars, readVars>>

\* client.ts:51-66. The list resolves: none or several is an error, one is
\* cached and returned.
RepositoriesResolved(c, repos) ==
    /\ repo.calls[c].pc = "list"
    /\ repo' =
           IF repos = JsNull \/ Len(repos) = 0 \/ Len(repos) > 1
           THEN [repo EXCEPT !.calls = RepoReturn(c, RepoError)]
           ELSE [repo EXCEPT !.resolved = RepoCache(repos[1]),
                             !.calls = RepoReturn(c, RepoCache(repos[1]))]
    /\ UNCHANGED <<subVars, sendVars, trackVars, profileVars, taskCall, toolVars, httpVars, readVars>>

\* client.ts:51. The list rejects, and getRepoId with it.
RepositoriesRejected(c) ==
    /\ repo.calls[c].pc = "list"
    /\ repo' = [repo EXCEPT !.calls = RepoReturn(c, RepoError)]
    /\ UNCHANGED <<subVars, sendVars, trackVars, profileVars, taskCall, toolVars, httpVars, readVars>>

RepoInit == repo = RepoIdle(JsNull)

RepoNext ==
    \/ \E c \in RepoCalls : getRepoId(c)
    \/ \E c \in RepoCalls, repos \in RepoLists : RepositoriesResolved(c, repos)
    \/ \E c \in RepoCalls : RepositoriesRejected(c)

\* ------------------------------------------------------------------------
\* HTTP mode: one server and one SubscriptionManager for each session
\* (worker.ts:96-153, 175-229)
\* ------------------------------------------------------------------------

\* The ids randomUUID gives to the sessions.
SessionIds == {1, 2}

\* The resource the clients of the sessions subscribe to.
HttpUri == UriTasks

NoCycle == [pc |-> "none", hash |-> undefined]

\* new SubscriptionManager(server, config), resources.ts:84-94; made says
\* that createMCPServer has run for the session, sent holds the URIs of
\* the notifications its server has sent.
NewManager(made) ==
    [made |-> made, subscriptions |-> <<>>, lastHashes |-> undefined,
     pollTimer |-> NULL, cycle |-> NoCycle, sent |-> {}]

\* createMCPServer returning the manager of the first session to each.
ManagerShared(s) == 1

\* worker.ts:213 and 150: the manager that createMCPServer made for
\* session s.
ManagerOf(s) == s

Mgr(s) == http.mgr[ManagerOf(s)]

SetMgr(s, m) == [http EXCEPT !.mgr[ManagerOf(s)] = m]

\* The spawnSync of a fetch has the event loop, which all sessions share.
HttpBlocking ==
    client = "spawnSync" /\ \E s \in SessionIds : http.mgr[s].cycle.pc = "fetch"

\* worker.ts:201-215. A POST without a session id: a transport and a
\* server are made, and the session is entered in the Map.
NewSession(s) ==
    /\ ~HttpBlocking
    /\ s \notin http.sessions
    /\ ~http.mgr[s].made
    /\ \A t \in SessionIds : t < s => http.mgr[t].made
    /\ http' = [sessions |-> http.sessions \cup {s},
                mgr |-> [http.mgr EXCEPT ![s].made = TRUE]]
    /\ UNCHANGED <<subVars, sendVars, trackVars, profileVars, taskCall, toolVars, repoVars, readVars>>

\* worker.ts:187-191. DELETE of a session: the transport handles it and
\* the session leaves the Map.
DeleteSession(s) ==
    /\ ~HttpBlocking
    /\ s \in http.sessions
    /\ http' = [http EXCEPT !.sessions = http.sessions \ {s}]
    /\ UNCHANGED <<subVars, sendVars, trackVars, profileVars, taskCall, toolVars, repoVars, readVars>>

\* worker.ts:199-200, resources.ts:218-221 and 96-101: resources/subscribe
\* of session s.
HttpSubscribe(s, uri) ==
    LET m == Mgr(s) IN
    /\ ~HttpBlocking
    /\ s \in http.sessions
    /\ http' = SetMgr(s, [m EXCEPT !.subscriptions = SetAdd(m.subscriptions, uri),
                                    !.pollTimer = IF SubscribeStartsTimer(m.pollTimer)
                                                  THEN "interval1" ELSE m.pollTimer])
    /\ UNCHANGED <<subVars, sendVars, trackVars, profileVars, taskCall, toolVars, repoVars, readVars>>

\* worker.ts:199-200, resources.ts:224-227 and 103-109:
\* resources/unsubscribe of session s.
HttpUnsubscribe(s, uri) ==
    LET m == Mgr(s)
        left == SetDelete(m.subscriptions, uri)
    IN
    /\ ~HttpBlocking
    /\ s \in http.sessions
    /\ http' = SetMgr(s, [m EXCEPT !.subscriptions = left,
                                    !.lastHashes = undefined,
                                    !.pollTimer = IF Len(left) = 0 THEN NULL
                                                  ELSE m.pollTimer])
    /\ UNCHANGED <<subVars, sendVars, trackVars, profileVars, taskCall, toolVars, repoVars, readVars>>

\* resources.ts:118-131. The interval of the manager of session s fires,
\* no cycle of it under way: checkForChanges awaits the fetch of the URI.
HttpTick(s) ==
    LET m == Mgr(s) IN
    /\ ~HttpBlocking
    /\ m.made
    /\ m.pollTimer # NULL
    /\ m.cycle.pc = "none"
    /\ Has(m.subscriptions, HttpUri)
    /\ http' = SetMgr(s, [m EXCEPT !.cycle = [pc |-> "fetch", hash |-> undefined]])
    /\ UNCHANGED <<subVars, sendVars, trackVars, profileVars, taskCall, toolVars, repoVars, readVars>>

\* resources.ts:132-140. The fetch resolves: the notification is sent by
\* the server of the session and awaited, or the fingerprint is stored.
HttpFetchResolved(s, payload) ==
    LET m == Mgr(s)
        hash == createHash(JSONstringify(JSONparse(payload)))
    IN
    /\ m.cycle.pc = "fetch"
    /\ http' = SetMgr(s,
           IF ShouldNotify(m.lastHashes, hash)
           THEN [m EXCEPT !.cycle = [pc |-> "send", hash |-> hash],
                          !.sent = m.sent \cup {HttpUri}]
           ELSE [m EXCEPT !.cycle = NoCycle, !.lastHashes = hash])
    /\ UNCHANGED <<subVars, sendVars, trackVars, profileVars, taskCall, toolVars, repoVars, readVars>>

\* resources.ts:141-143
HttpFetchRejected(s) ==
    /\ Mgr(s).cycle.pc = "fetch"
    /\ http' = SetMgr(s, [Mgr(s) EXCEPT !.cycle = NoCycle])
    /\ UNCHANGED <<subVars, sendVars, trackVars, profileVars, taskCall, toolVars, repoVars, readVars>>

\* resources.ts:138-140
HttpSendResolved(s) ==
    /\ ~HttpBlocking
    /\ Mgr(s).cycle.pc = "send"
    /\ http' = SetMgr(s, [Mgr(s) EXCEPT !.cycle = NoCycle,
                                         !.lastHashes = Mgr(s).cycle.hash])
    /\ UNCHANGED <<subVars, sendVars, trackVars, profileVars, taskCall, toolVars, repoVars, readVars>>

\* resources.ts:138 and 141-143
HttpSendRejected(s) ==
    /\ ~HttpBlocking
    /\ Mgr(s).cycle.pc = "send"
    /\ http' = SetMgr(s, [Mgr(s) EXCEPT !.cycle = NoCycle])
    /\ UNCHANGED <<subVars, sendVars, trackVars, profileVars, taskCall, toolVars, repoVars, readVars>>

HttpInit == http = [sessions |-> {}, mgr |-> [s \in SessionIds |-> NewManager(FALSE)]]

HttpNext ==
    \/ \E s \in SessionIds : NewSession(s)
    \/ \E s \in SessionIds : DeleteSession(s)
    \/ \E s \in SessionIds : HttpSubscribe(s, HttpUri)
    \/ \E s \in SessionIds : HttpUnsubscribe(s, HttpUri)
    \/ \E s \in SessionIds : HttpTick(s)
    \/ \E s \in SessionIds, payload \in Payloads : HttpFetchResolved(s, payload)
    \/ \E s \in SessionIds : HttpFetchRejected(s)
    \/ \E s \in SessionIds : HttpSendResolved(s)
    \/ \E s \in SessionIds : HttpSendRejected(s)

\* ------------------------------------------------------------------------
\* The ReadResource handler (resources.ts:205-215)
\* ------------------------------------------------------------------------

\* The characters of the ids of the URIs read: hexadecimal digits of both
\* cases, the hyphen, a letter that is no digit, and the slash.
IdChars == {"a", "F", "-", "g", "/"}

RECURSIVE IdTexts(_)
IdTexts(n) ==
    IF n = 0 THEN {<<>>}
    ELSE IdTexts(n - 1) \cup
         {Append(s, c) : s \in {t \in IdTexts(n - 1) : Len(t) = n - 1},
                         c \in IdChars}

\* What the URIs read begin with.
UriHeads ==
    {TasksChars, ContextChars, TasksPrefix, SessionsPrefix,
     <<"V","I","B","E",":","/","/","S","e","s","s","i","o","n","s","/">>,
     <<"v","i","b","e",":","/","/","t","a","s","k","/">>,
     <<>>}

\* What they end with.
UriTails == {<<>>, QueueSuffix, <<"/","Q","u","e","u","e">>, <<"/","q","u","e","u","e","/">>}

\* request.params.uri: any string; here a head, an id of at most MaxLen
\* characters and a tail.
ReadUris == {h \o id \o t : h \in UriHeads, id \in IdTexts(MaxLen), t \in UriTails}

\* resources.ts:60-76: the request fetchResourceData makes for a parsed
\* URI; none for the context when no workspace is configured.
fetchResourceData(parsed, workspaceId) ==
    CASE parsed.type = "tasks" -> <<"listTasks">>
      [] parsed.type = "context" ->
            IF workspaceId THEN <<"getWorkspaceContext">> ELSE <<>>
      [] parsed.type = "task" -> <<"getTask", parsed.taskId>>
      [] parsed.type = "session" -> <<"getSession", parsed.sessionId>>
      [] parsed.type = "queue" -> <<"getQueueStatus", parsed.sessionId>>

\* A request to read uri has arrived, of a server configured with a
\* workspace or without.
ReadIdle(uri, workspaceId) ==
    [pc |-> "idle", uri |-> uri, workspaceId |-> workspaceId,
     parsed |-> ParsedNull, requests |-> <<>>, result |-> "none"]

\* resources.ts:205-214. The handler is called: a URI that does not parse
\* throws, any other has its data fetched.
ReadResource ==
    LET parsed == ParseChars(read.uri) IN
    /\ read.pc = "idle"
    /\ read' =
           IF parsed = ParsedNull
           THEN [read EXCEPT !.pc = "done", !.parsed = parsed,
                             !.result = "Unknown resource URI"]
           ELSE IF fetchResourceData(parsed, read.workspaceId) = <<>>
           THEN [read EXCEPT !.pc = "done", !.parsed = parsed,
                             !.result = "content"]
           ELSE [read EXCEPT !.pc = "fetch", !.parsed = parsed,
                             !.requests = <<fetchResourceData(parsed, read.workspaceId)>>]
    /\ UNCHANGED <<subVars, sendVars, trackVars, profileVars, taskCall, toolVars, repoVars, httpVars>>

\* resources.ts:213-214
ReadFetchResolved ==
    /\ read.pc = "fetch"
    /\ read' = [read EXCEPT !.pc = "done", !.result = "content"]
    /\ UNCHANGED <<subVars, sendVars, trackVars, profileVars, taskCall, toolVars, repoVars, httpVars>>

\* resources.ts:213: the rejection of the fetch is the handler's.
ReadFetchRejected ==
    /\ read.pc = "fetch"
    /\ read' = [read EXCEPT !.pc = "done", !.result = "API error"]
    /\ UNCHANGED <<subVars, sendVars, trackVars, profileVars, taskCall, toolVars, repoVars, httpVars>>

ReadInit == read = ReadIdle(<<>>, FALSE)

ReadNext ==
    \/ ReadResource
    \/ ReadFetchResolved
    \/ ReadFetchRejected

ServerInit == ToolInit /\ RepoInit /\ HttpInit /\ ReadInit

ClientInit == taskCall = TaskIdle /\ ServerInit

TaskNext ==
    \/ \E method \in {"createTask", "updateTask"}, description \in Descriptions :
          TaskCall(method, description)
    \/ \E tags \in TagDirectories : TagsResolved(tags)
    \/ TagsRejected
    \/ TaskResolved
    \/ TaskRejected

SubInit(uris) ==
    /\ clientUris = uris
    /\ client \in Clients
    /\ subscriptions = <<>>
    /\ lastHashes = [u \in Uris |-> undefined]
    /\ pollTimer = NULL
    /\ timers = {}
    /\ cycles = {}
    /\ exited = FALSE
    /\ ticks = 0
    /\ polls = [t \in Ticks |-> NoPoll]
    /\ pending = "no"
    /\ everUnsub = FALSE
    /\ failedAt = {}
    /\ lastCall = NoCall

SubNext ==
    \/ \E uri \in clientUris : subscribe(uri) /\ lastCall' = NoCall
    \/ \E uri \in clientUris : unsubscribe(uri) /\ lastCall' = NoCall
    \/ Tick
    \/ \E c \in cycles, payload \in Payloads : FetchResolved(c, payload)
    \/ \E c \in cycles : FetchRejected(c)
    \/ \E c \in cycles : SendResolved(c)
    \/ \E c \in cycles : SendRejected(c)
    \/ SigInt

\* One client-visible resource and one URI that does not parse.
InitSub == SubInit({UriTasks, UriBad}) /\ SendInit /\ TrackInit /\ ProfileInit /\ ClientInit

SpecSub == InitSub /\ [][SubNext]_vars

\* Two client-visible resources polled in the same cycle, of clients that
\* keep their subscriptions.
InitSubTwo == SubInit({UriTasks, UriQueue}) /\ SendInit /\ TrackInit /\ ProfileInit /\ ClientInit

SubTwoNext ==
    \/ \E uri \in clientUris : subscribe(uri) /\ lastCall' = NoCall
    \/ Tick
    \/ \E c \in cycles, payload \in Payloads : FetchResolved(c, payload)
    \/ \E c \in cycles : FetchRejected(c)
    \/ \E c \in cycles : SendResolved(c)
    \/ \E c \in cycles : SendRejected(c)
    \/ SigInt

SpecSubTwo == InitSubTwo /\ [][SubTwoNext]_vars

\* resources.ts:218-221. The handler of resources/subscribe, the call kept
\* as the last made with Observed.
SubscribeRequest(uri) ==
    /\ subscribe(uri)
    /\ lastCall' = IF uri = Observed THEN Called("subscribe") ELSE NoCall

\* resources.ts:224-227. The handler of resources/unsubscribe, likewise.
UnsubscribeRequest(uri) ==
    /\ unsubscribe(uri)
    /\ lastCall' = IF uri = Observed THEN Called("unsubscribe") ELSE NoCall

\* The manager as a class: its calls with their history, the poll cycles,
\* and stopPolling() as a call of its own.
ManagerNext ==
    \/ \E uri \in clientUris : SubscribeRequest(uri)
    \/ \E uri \in clientUris : UnsubscribeRequest(uri)
    \/ Tick
    \/ \E c \in cycles, payload \in Payloads : FetchResolved(c, payload)
    \/ \E c \in cycles : FetchRejected(c)
    \/ \E c \in cycles : SendResolved(c)
    \/ \E c \in cycles : SendRejected(c)
    \/ SigInt
    \/ StopPollingCall

InitManager == SubInit({UriTasks, UriBad}) /\ SendInit /\ TrackInit /\ ProfileInit /\ ClientInit

SpecManager == InitManager /\ [][ManagerNext]_vars

\* Calls of send_message, one after the other.
InitSend == SubInit({}) /\ SendInit /\ TrackInit /\ ProfileInit /\ ClientInit

SpecSend == InitSend /\ [][SendNext]_vars

\* One executor name, given to start_session and to send_message.
InitProfile ==
    /\ SubInit({}) /\ SendInit /\ TrackInit /\ ClientInit
    /\ \E executor \in ExecutorNames, variant \in VariantArgs :
           profiles = [ProfileIdle EXCEPT !.executor = executor,
                                          !.variant = variant]

SpecProfile == InitProfile /\ [][ProfileNext]_vars

\* Calls of createTask and updateTask, one after the other.
InitTask == SubInit({}) /\ SendInit /\ TrackInit /\ ProfileInit /\ ClientInit

SpecTask == InitTask /\ [][TaskNext]_vars

\* Calls of tools through the CallTool handler, one after the other.
InitTool == SubInit({}) /\ SendInit /\ TrackInit /\ ProfileInit /\ ClientInit

SpecTool == InitTool /\ [][ToolNext]_vars

\* Calls of getRepoId, of a client with a locked repository or without.
InitRepo ==
    /\ SubInit({}) /\ SendInit /\ TrackInit /\ ProfileInit
    /\ taskCall = TaskIdle /\ ToolInit /\ HttpInit /\ ReadInit
    /\ \E repoId \in {JsNull, RepoLocked} : repo = RepoIdle(repoId)

SpecRepo == InitRepo /\ [][RepoNext]_vars

\* HTTP mode: sessions are opened and closed, and each subscribes, polls
\* and unsubscribes.
InitHttp == SubInit({}) /\ SendInit /\ TrackInit /\ ProfileInit /\ ClientInit

SpecHttp == InitHttp /\ [][HttpNext]_vars

\* The read of a resource, of any URI.
InitRead ==
    /\ SubInit({}) /\ SendInit /\ TrackInit /\ ProfileInit
    /\ taskCall = TaskIdle /\ ToolInit /\ RepoInit /\ HttpInit
    /\ \E uri \in ReadUris, workspaceId \in BOOLEAN : read = ReadIdle(uri, workspaceId)

SpecRead == InitRead /\ [][ReadNext]_vars

\* One tracked execution.
InitTrack == SubInit({}) /\ SendInit /\ TrackInit /\ ProfileInit /\ ClientInit

SpecTrack == InitTrack /\ [][TrackNext]_vars

\* ------------------------------------------------------------------------
\* Properties of the SubscriptionManager
\* ------------------------------------------------------------------------

\* A step in which a cycle calls sendResourceUpdated({uri: u}): its call of
\* checkForChanges goes from awaiting the fetch to awaiting the send.
EmitStep(u) ==
    \E c \in cycles, d \in cycles' :
        /\ c.tick = d.tick
        /\ c.pc = "fetch"
        /\ d.pc = "send"
        /\ d.uri = u

\* A step in which a cycle that had sent the notification for u stores the
\* fingerprint it had computed (resources.ts:140 after the await of line 138).
StoreAfterSendStep(u) ==
    \E c \in cycles :
        /\ c.pc = "send"
        /\ c.uri = u
        /\ c.hash = lastHashes'[u]
        /\ \A d \in cycles' : d.tick # c.tick \/ d.pc # "send"

\* The first comparison made for Observed after a subscribe that added it,
\* by a cycle that fetched Observed after that subscribe.
FirstCompareStep ==
    /\ pending # "no"
    /\ pending' = "no"
    /\ Has(subscriptions', Observed)
    /\ ~exited'

\* C1: U subscribed (and never unsubscribed), polled at tick n and at tick
\* n+1 with contents that serialize differently: tick n+1 emits the
\* notification for U.
C1_ChangeNotifiedByNextTick ==
    \A n \in 1..(MaxTicks - 1) :
        ( /\ polls[n] # NoPoll
          /\ polls[n + 1] # NoPoll
          /\ polls[n].json # polls[n + 1].json )
        => polls[n + 1].emitted

\* C2: a poll emits the notification for a URI if and only if a stored
\* fingerprint exists at comparison time and differs from the computed one.
\* Only if: a cycle that calls sendResourceUpdated found a stored
\* fingerprint other than the one it computed. If: a stored fingerprint is
\* replaced by a different one only by a cycle that has sent the
\* notification (a silent comparison stores what it computed at once), and
\* each recorded comparison of Observed emits exactly when the fingerprint
\* stored before the step exists and differs from that of the fetched text.
C2_NotifyIffStoredAndDifferent ==
    [][\A u \in Uris :
          /\ EmitStep(u) =>
                 /\ lastHashes[u] # undefined
                 /\ \A d \in cycles' :
                        (d.pc = "send" /\ d.uri = u /\ d \notin cycles)
                        => (d.lastHash = lastHashes[u] /\ d.hash # lastHashes[u])
          /\ ( /\ lastHashes[u] # undefined
               /\ lastHashes'[u] # undefined
               /\ lastHashes'[u] # lastHashes[u] )
             => StoreAfterSendStep(u)
          /\ \A t \in Ticks :
                 (u = Observed /\ polls'[t] # polls[t] /\ polls'[t] # NoPoll)
                 => ( EmitStep(u) <=>
                          /\ lastHashes[u] # undefined
                          /\ lastHashes[u] # createHash(polls'[t].json) )
      ]_vars

\* C2's case: a cycle suspended on the notification it sent for Observed.
C2_Witness ==
    \E c \in cycles :
        /\ c.pc = "send"
        /\ c.uri = Observed
        /\ c.lastHash # undefined
        /\ c.lastHash # c.hash

\* C3: the first comparison after a subscribe(U) that added U to the set
\* emits no notification, whatever was fetched and whatever came before.
C3_FirstPollSilent ==
    [][FirstCompareStep => ~EmitStep(Observed)]_vars

\* C4: no notification for U is emitted while U is unsubscribed, and the
\* first comparison after a later subscribe(U) emits none, also when the
\* unsubscribe is handled while a cycle awaits the fetch or the send for U.
C4_UnsubscribeStopsNotifications ==
    [][/\ EmitStep(Observed) => Has(subscriptions, Observed)
       /\ (pending = "resub" /\ FirstCompareStep) => ~EmitStep(Observed)
      ]_vars

\* C5: while the process runs, the poll timer is active if and only if the
\* subscription set is non-empty, and the manager's timer is the only
\* interval that is set.
C5_TimerIffSubscribed ==
    ~exited =>
        /\ (pollTimer # NULL) <=> (Len(subscriptions) > 0)
        /\ timers = (IF pollTimer = NULL THEN {} ELSE {pollTimer})

\* C5's case: a second URI was subscribed with the timer left running, and
\* the timer has fired.
C5_Witness ==
    /\ ~exited
    /\ Len(subscriptions) = 2
    /\ pollTimer # NULL
    /\ ticks >= 1

\* C6: U subscribed (and never unsubscribed), polled at ticks n and n+1
\* with contents that serialize the same: tick n+1 emits no notification.
C6_UnchangedContentSilent ==
    \A n \in 1..(MaxTicks - 1) :
        ( /\ polls[n] # NoPoll
          /\ polls[n + 1] # NoPoll
          /\ polls[n].json = polls[n + 1].json )
        => ~polls[n + 1].emitted

\* ------------------------------------------------------------------------
\* Properties of send_message
\* ------------------------------------------------------------------------

\* The invocation has issued the request op and it ended with outcome.
Ended(op, outcome) ==
    \E i \in 1..Len(requests) :
        requests[i].op = op /\ requests[i].outcome = outcome

HasBusyToken(text) == \E t \in BusyTokens : Includes(text, t)

\* C7: in one invocation a queue request is issued if and only if the
\* immediate send was attempted and failed, auto_queue is not false, and
\* the stringified send error contains one of running, busy, 409, conflict;
\* a send failure without any of them never queues, and neither does a
\* failure of getSession.
C7_QueueIffBusySendFailure ==
    call.pc # "idle" =>
        /\ Issued("queueMessage") <=>
               ( /\ Ended("sendFollowUp", "error")
                 /\ call.raw.auto_queue # "false"
                 /\ HasBusyToken(String(call.sendError)) )
        /\ ( /\ Ended("sendFollowUp", "error")
             /\ ~HasBusyToken(String(call.sendError)) )
           => ~Issued("queueMessage")
        /\ Ended("getSession", "error")
           => (~Issued("sendFollowUp") /\ ~Issued("queueMessage"))

\* C7's case: auto_queue omitted, the send refused with a busy text, and
\* the queue request issued.
C7_Witness ==
    /\ call.pc = "queueMessage"
    /\ call.raw.auto_queue = "omitted"
    /\ Ended("sendFollowUp", "error")
    /\ HasBusyToken(String(call.sendError))
    /\ Issued("queueMessage")

\* C8: the immediate send fails with a text that contains a busy token.
\* auto_queue omitted or true: the queue request is issued, and once it is
\* accepted the invocation ends with the success result Message Queued.
\* auto_queue false: no queue request, and the invocation ends with the
\* error result SEND_FAILED carrying the text of the send error.
C8_BusyFailureOutcome ==
    ( /\ call.pc = "done"
      /\ Ended("sendFollowUp", "error")
      /\ HasBusyToken(call.sendError.message) )
    => /\ call.raw.auto_queue # "false" =>
              /\ Issued("queueMessage")
              /\ Ended("queueMessage", "ok") =>
                     (~call.result.isError /\ call.result.heading = "Message Queued")
       /\ call.raw.auto_queue = "false" =>
              /\ ~Issued("queueMessage")
              /\ call.result.isError
              /\ call.result.heading = "SEND_FAILED"
              /\ Includes(call.result.message, call.sendError.message)

\* C8's case: '409 conflict' refused with auto_queue false, and the
\* invocation over.
C8_Witness ==
    /\ call.pc = "done"
    /\ call.raw.auto_queue = "false"
    /\ Ended("sendFollowUp", "error")
    /\ Includes(call.sendError.message, <<"4","0","9"," ","c","o","n","f","l","i","c","t">>)
    /\ call.result.isError

\* The explicit executor argument is there.
ExplicitExecutor == call.args.executor \notin {undefined, <<>>}

\* getSession has answered, and the session has an executor.
SessionExecutor ==
    Ended("getSession", "ok") /\ call.session \notin {JsNull, <<>>}

Count(op) == Cardinality({i \in 1..Len(requests) : requests[i].op = op})

\* C14: the session was read, and neither the explicit argument nor the
\* session gives an executor: the invocation is over with the error result
\* EXECUTOR_REQUIRED, and it has issued neither sendFollowUp nor
\* queueMessage.
C14_NoExecutorFailsWithoutRequest ==
    ( /\ Ended("getSession", "ok")
      /\ ~ExplicitExecutor
      /\ ~SessionExecutor )
    => /\ call.pc = "done"
       /\ call.result.isError
       /\ call.result.heading = "EXECUTOR_REQUIRED"
       /\ ~Issued("sendFollowUp")
       /\ ~Issued("queueMessage")

\* C14's case: the executor argument is the empty string and the session
\* has no executor.
C14_Witness ==
    /\ call.pc = "done"
    /\ call.args.executor = <<>>
    /\ Ended("getSession", "ok")
    /\ call.session = JsNull
    /\ call.result.isError

\* C15: past the resolution of the executor, an invocation whose executor
\* is known from the argument or from the session has issued sendFollowUp;
\* and an invocation that is over without having issued it had no executor,
\* neither in the argument nor from the session.
C15_KnownExecutorAttemptsSend ==
    call.pc \notin {"idle", "getSession"} =>
        /\ (ExplicitExecutor \/ SessionExecutor) => Issued("sendFollowUp")
        /\ (call.pc = "done" /\ ~Issued("sendFollowUp"))
              => (~ExplicitExecutor /\ ~SessionExecutor)

\* C16: a queue request that fails ends the invocation with the error
\* result SEND_FAILED, and nothing is asked twice: an invocation issues
\* sendFollowUp at most once and queueMessage at most once.
C16_QueueFailureFailsWithoutRetry ==
    /\ Ended("queueMessage", "error")
          => /\ call.pc = "done"
             /\ call.result.isError
             /\ call.result.heading = "SEND_FAILED"
    /\ Count("sendFollowUp") <= 1
    /\ Count("queueMessage") <= 1

\* C16's case: the send was refused as busy, the queue request was refused
\* too, and the invocation is over.
C16_Witness ==
    /\ call.pc = "done"
    /\ Ended("sendFollowUp", "error")
    /\ Ended("queueMessage", "error")
    /\ call.result.isError

\* C19: an invocation whose immediate send was accepted has created a
\* tracking record and started a tracker exactly when its context has a task
\* store; and an invocation without a task store creates no record and ends
\* as it would have ended with one.
C19_TrackedIffTaskStore ==
    ( /\ call.pc = "done"
      /\ Ended("sendFollowUp", "ok") )
    => /\ call.extra = "taskStore"
             <=> (record.status # "none" /\ tracker.pc # "idle")
       /\ call.extra = "empty"
             => (~call.result.isError /\ record.status = "none")

\* ------------------------------------------------------------------------
\* Properties of the execution tracker
\* ------------------------------------------------------------------------

\* C9: a tracker that saw status running in every one of its
\* MAX_POLL_ITERATIONS iterations and has returned has marked the record
\* failed with the timeout reason.
C9_RunningForBudgetEndsTimedOut ==
    ( /\ tracker.pc = "done"
      /\ tracker.i = MAX_POLL_ITERATIONS
      /\ allRunning )
    => record = [status |-> "failed", statusMessage |-> "Timed out after 10 minutes"]

\* C10 as stated: the four statuses map by the table, and a status outside
\* the four is mapped to no tracking status.
C10_OnlyFourStatusesMapped ==
    tracker.status # NoStatus =>
        CASE tracker.status = "running" -> tracker.mcpStatus = "working"
          [] tracker.status = "completed" -> tracker.mcpStatus = "completed"
          [] tracker.status = "failed" -> tracker.mcpStatus = "failed"
          [] tracker.status = "killed" -> tracker.mcpStatus = "cancelled"
          [] OTHER -> tracker.mcpStatus = NoStatus

\* C10: running maps to working, completed to completed, failed to failed,
\* killed to cancelled, and every other status to working.
C10_StatusTableWithDefault ==
    tracker.status # NoStatus =>
        CASE tracker.status = "running" -> tracker.mcpStatus = "working"
          [] tracker.status = "completed" -> tracker.mcpStatus = "completed"
          [] tracker.status = "failed" -> tracker.mcpStatus = "failed"
          [] tracker.status = "killed" -> tracker.mcpStatus = "cancelled"
          [] OTHER -> tracker.mcpStatus = "working"

\* C10's case: the Gateway reported a status outside the four, and the
\* tracker has mapped it.
C10_Witness ==
    /\ tracker.pc = "emit"
    /\ tracker.status = "pending"
    /\ tracker.mcpStatus = "working"

\* C11: the cancellation signal was set while the tracker sleeps: the
\* tracker's next step, when the sleep is over, is the write of cancelled;
\* it is not a Gateway fetch.
C11_AbortedSleepEndsInCancel ==
    [][(aborted /\ tracker.pc = "sleep" /\ tracker' # tracker)
       => tracker'.pc = "updateCancelled"]_vars

\* C12: the normalization of an executor name is idempotent: a name that
\* was normalized for a session and is normalized again for a follow-up
\* stays as it was; claude-code, CLAUDE_CODE and Claude-Code between spaces
\* all give CLAUDE_CODE; and starting a session gives, for every name and
\* variant, the profile that a follow-up or queued message gives.
C12_NormalizationIdempotentAndShared ==
    /\ (profiles.session # NoProfile /\ profiles.followUp # NoProfile)
          => profiles.session = profiles.followUp
    /\ profiles.inherited # NoProfile
          => profiles.inherited = profiles.session
    /\ profiles.executor \in {ClaudeCodeHyphen, ClaudeCodeUpper, ClaudeCodeSpaced}
          => /\ profiles.session # NoProfile
                  => profiles.session.executor = ClaudeCodeUpper
             /\ profiles.followUp # NoProfile
                  => profiles.followUp.executor = ClaudeCodeUpper

C12_Witness ==
    /\ profiles.executor = ClaudeCodeSpaced
    /\ profiles.session # NoProfile
    /\ profiles.followUp # NoProfile
    /\ profiles.inherited # NoProfile
    /\ profiles.inherited.executor = ClaudeCodeUpper

\* The cycle of tick t has fetched Observed, or has not come to it yet.
PolledAt(t) ==
    \/ polls[t] # NoPoll
    \/ \E f \in failedAt : f.tick = t
    \/ \E d \in cycles :
          /\ d.tick = t
          /\ d.uri = Observed \/ d.idx < IndexOf(subscriptions, Observed)

\* C13: a fetch that fails is swallowed. The step that handles the failure
\* leaves the subscriptions, the stored fingerprints and the timer as they
\* were, makes no comparison and sends no notification for the URI in this
\* tick, and takes the cycle on to the fetch of the next subscribed URI; and
\* the URI whose fetch failed is fetched again by the cycle of every tick
\* that fires after the failure.
C13_FailedFetchSkipsUriForOneTick ==
    /\ [][\A c \in cycles : FetchRejected(c) =>
             /\ subscriptions' = subscriptions
             /\ Has(subscriptions', c.uri)
             /\ lastHashes' = lastHashes
             /\ pollTimer' = pollTimer
             /\ timers' = timers
             /\ polls' = polls
             /\ \A d \in cycles' : d.tick = c.tick => d.uri # c.uri
             /\ LET n == NextToFetch(subscriptions, c.idx) IN
                  n # 0 => \E d \in cycles' :
                              /\ d.tick = c.tick
                              /\ d.pc = "fetch"
                              /\ d.uri = subscriptions[n]]_vars
    /\ [](\A f \in failedAt, u \in Ticks :
             (f.at < u /\ u <= ticks) => PolledAt(u))

\* The fetch of Observed failed in the cycle of tick 1, which is at the
\* fetch of the other URI; the cycle of tick 2 has compared Observed.
C13_Witness ==
    /\ subscriptions = <<UriTasks, UriQueue>>
    /\ failedAt = {[tick |-> 1, at |-> 1]}
    /\ \E d \in cycles : d.tick = 1 /\ d.pc = "fetch" /\ d.uri = UriQueue
    /\ polls[2] # NoPoll

\* C17: the fetch by id has failed and the tracker awaits the list of the
\* session. Its next step either has the process from the list and goes on
\* with its status, or goes to mark the record failed, Execution process
\* not found, after which it returns.
C17_FallbackFindsOrFails ==
    [][(tracker.pc = "listExecutionProcesses" /\ tracker' # tracker)
          => \/ tracker'.pc = "emit" /\ tracker'.status # NoStatus
             \/ tracker'.pc = "updateNotFound"]_vars

\* The tracker has issued a Gateway fetch, or is past one.
FetchBegun ==
    \/ tracker.pc \in {"getExecutionProcess", "listExecutionProcesses", "emit",
                       "updateNotFound", "storeCompleted", "storeFailed",
                       "updateKilled"}
    \/ tracker.i > 0

\* C18: the result of the tracked send is returned when the record is
\* created: whenever the record exists the result has been returned, so it
\* is there before the tracker's first fetch; it is the accepted-and-tracked
\* result, and no later step of the tracker changes it.
C18_ResponseBeforeFirstFetch ==
    /\ [](record.status # "none" => response = TrackedResponse)
    /\ [](FetchBegun => response = TrackedResponse)
    /\ [][response # NoResponse => response' = response]_vars

\* C18's case: the result is returned, the record is working, and the
\* tracker is in its first sleep.
C18_Witness ==
    /\ response = TrackedResponse
    /\ record.status = "working"
    /\ tracker.pc = "sleep"
    /\ tracker.i = 0

\* C20: whatever becomes of a progress emission (no token, the notification
\* sent, the notification failed), the step that follows it is the one the
\* observed status alone decides: the terminal write of that status, or the
\* next iteration; and the emission writes nothing to the record.
C20_EmissionNeverLoadBearing ==
    [][(tracker.pc = "emit" /\ tracker' # tracker)
          => /\ lastEmit' \in {"noToken", "resolved", "rejected"}
             /\ record' = record
             /\ tracker'.pc =
                    CASE tracker.status = "completed" -> "storeCompleted"
                      [] tracker.status = "failed" -> "storeFailed"
                      [] tracker.status = "killed" -> "updateKilled"
                      [] OTHER -> LoopHead(tracker.i + 1).pc
             /\ tracker'.i = IF tracker.status \in {"completed", "failed", "killed"}
                             THEN tracker.i ELSE tracker.i + 1]_vars

\* C20's case: the emission for a completed process failed, and the tracker
\* is at the write of completed.
C20_Witness ==
    /\ lastEmit = "rejected"
    /\ tracker.pc = "storeCompleted"
    /\ tracker.status = "completed"

\* C21: the request of the tag directory has failed: the call goes on, and
\* the description it sends with the task is the text it was given; the
\* failure of the directory alone never ends the call with an error.
C21_TagFetchFailureKeepsText ==
    taskCall.tags = "error"
    => /\ taskCall.description = taskCall.text
       /\ taskCall.requests = <<"GET /api/tags", taskCall.method>>
       /\ taskCall.pc \in {"task", "done"}
       /\ taskCall.pc = "done" => taskCall.result \in {"ok", "error"}

\* C21's case: a text with @a, the directory refused, the task being sent.
C21_Witness ==
    /\ taskCall.text = <<"@", "a">>
    /\ taskCall.tags = "error"
    /\ taskCall.pc = "task"
    /\ taskCall.description = <<"@", "a">>

\* The state of the manager: the set, the fingerprints, the timer.
Manager == <<subscriptions, lastHashes, pollTimer, timers>>

\* C22: a subscribe(U) made in the state a subscribe(U) produced leaves the
\* subscription set, the fingerprint table and the timer as the first left
\* them, and so does an unsubscribe(U) made in the state an unsubscribe(U)
\* produced; and a subscribe of a URI that is in the set, whenever it is
\* made, leaves the set and the stored fingerprints as they are.
C22_SubscribeUnsubscribeIdempotent ==
    [][/\ (lastCall.op = "subscribe" /\ subscribe(Observed))
             => Manager' = Manager
       /\ (lastCall.op = "unsubscribe" /\ unsubscribe(Observed))
             => Manager' = Manager
       /\ \A u \in Uris : (Has(subscriptions, u) /\ subscribe(u))
             => (lastHashes' = lastHashes /\ subscriptions' = subscriptions)
      ]_vars

\* C22's case: subscribe(U) was called twice running, with a fingerprint of
\* U stored.
C22_Witness ==
    /\ lastCall = [op |-> "subscribe", again |-> TRUE]
    /\ lastHashes[Observed] # undefined
    /\ pollTimer # NULL

\* C23: one unsubscribe(U) removes U from the set however many times
\* subscribe(U) was called before it, and stops the timer if the set is left
\* empty; and from then on, until U is subscribed again, no notification
\* for U is sent.
C23_SingleUnsubscribeEndsNotifications ==
    [][/\ \A u \in Uris : unsubscribe(u)
             => /\ ~Has(subscriptions', u)
                /\ Len(subscriptions') = 0 => (pollTimer' = NULL /\ timers' = {})
       /\ \A u \in Uris : ~Has(subscriptions, u) => ~EmitStep(u)
      ]_vars

\* C24: stopPolling() leaves no interval set and no timer handle, whatever
\* the subscription set holds; called with the timer stopped it changes
\* nothing; it never touches the subscription set or the fingerprints; and
\* with the timer stopped no poll cycle starts, the timer being set again
\* only by a subscribe.
C24_StopPollingHaltsUntilSubscribe ==
    [][/\ StopPollingCall
             => /\ pollTimer' = NULL
                /\ timers' = {}
                /\ subscriptions' = subscriptions
                /\ lastHashes' = lastHashes
       /\ (pollTimer = NULL /\ StopPollingCall) => Manager' = Manager
       /\ Tick => pollTimer # NULL
       /\ (pollTimer = NULL /\ pollTimer' # NULL)
             => \E uri \in clientUris : subscribe(uri)
      ]_vars

\* C24's case: stopPolling() was called with URIs subscribed and a cycle
\* suspended, and the process goes on.
C24_Witness ==
    /\ ~exited
    /\ pollTimer = NULL
    /\ Len(subscriptions) > 0
    /\ cycles # {}

\* C25: every call of the CallTool handler ends by returning a result, never
\* by raising; and the call of a name that is no tool, the call with an
\* input the schema refuses, and the call whose handler's last request
\* failed (no answer, or an answer with success false) return an error
\* result.
C25_FailuresReturnErrorResults ==
    toolCall.pc = "done"
    => /\ toolCall.ended.outcome = "returned"
       /\ ( \/ ~toolMapHas(toolCall.name)
            \/ toolCall.input = "invalid"
            \/ toolCall.last = "rejected" )
          => toolCall.ended.result.isError

\* C25's case: the request of a tool's handler has failed.
C25_Witness ==
    /\ toolCall.pc = "done"
    /\ toolCall.name = "delete_task"
    /\ toolCall.last = "rejected"
    /\ toolCall.ended.result.isError
    /\ toolCall.ended.result.heading = "delete_task"

\* A call of getRepoId that asked for the list ends in this step.
ListEnds(c) == repo.calls[c].pc = "list" /\ repo'.calls[c].pc = "done"

\* A call of getRepoId begins in this step.
Begins(c) == repo.calls[c].pc # "list" /\ repo'.calls[c] # repo.calls[c]

\* C26 but for the cached id never changing: a locked id is what every call
\* returns, without asking for the list; a call that asked and failed leaves
\* the cache as it was, one that asked and got an id has cached that id; and
\* a call that begins with an id cached does not ask for the list.
C26_ResolutionButStableCache ==
    /\ [](Truthy(repo.repoId)
             => \A c \in RepoCalls :
                    /\ repo.calls[c].pc # "list"
                    /\ repo.calls[c].pc = "done" => repo.calls[c].result = repo.repoId)
    /\ [][\A c \in RepoCalls :
             /\ (ListEnds(c) /\ repo'.calls[c].result = RepoError)
                    => repo'.resolved = repo.resolved
             /\ (ListEnds(c) /\ repo'.calls[c].result # RepoError)
                    => repo'.resolved = repo'.calls[c].result
             /\ (Begins(c) /\ repo'.calls[c].pc = "list")
                    => ~Truthy(repo.resolved)
             /\ (Begins(c) /\ repo'.calls[c].pc = "done")
                    => /\ repo'.calls[c].result \in {repo.repoId, repo.resolved}
                       /\ Truthy(repo'.calls[c].result)
        ]_vars

\* C26: the above, and once an id is cached the cached id never changes.
C26_RepoResolvedOnce ==
    /\ C26_ResolutionButStableCache
    /\ [][Truthy(repo.resolved) => repo'.resolved = repo.resolved]_vars

\* C27: a subscribe or an unsubscribe of one session leaves the manager of
\* every other session as it is: its subscription set, its fingerprint,
\* its timer, its cycle and the notifications its server has sent; and no
\* step changes the managers of two sessions.
C27_SessionsIsolated ==
    [][/\ \A s \in SessionIds : \A t \in SessionIds \ {s} :
             (HttpSubscribe(s, HttpUri) \/ HttpUnsubscribe(s, HttpUri))
                 => Mgr(t)' = Mgr(t)
       /\ \A s \in SessionIds : \A t \in SessionIds \ {s} :
             Mgr(s)' = Mgr(s) \/ Mgr(t)' = Mgr(t)
      ]_vars

\* C27's case: session 1 has unsubscribed from the URI it was notified of,
\* and session 2 is subscribed to it still, its timer set and its
\* fingerprint stored.
C27_Witness ==
    /\ HttpUri \in Mgr(1).sent
    /\ ~Has(Mgr(1).subscriptions, HttpUri)
    /\ Mgr(1).pollTimer = NULL
    /\ Has(Mgr(2).subscriptions, HttpUri)
    /\ Mgr(2).pollTimer # NULL
    /\ Mgr(2).lastHashes # undefined

ParsedTypes == {"tasks", "context", "task", "session", "queue", "null"}

\* uri is vibe://sessions/{id}/queue, whatever the case of its letters.
IsQueueForm(uri) ==
    /\ StartsWith(LowerCase(uri), SessionsPrefix)
    /\ EndsWith(LowerCase(uri), QueueSuffix)
    /\ Len(uri) > Len(SessionsPrefix) + Len(QueueSuffix)
    /\ \A i \in (Len(SessionsPrefix) + 1)..(Len(uri) - Len(QueueSuffix)) :
           IsHexDash(uri[i])

\* C28: whatever string is read, parsing gives one of the five kinds or
\* none; the kind is the one whose form the string has (with the id the
\* string holds), a URI of the form sessions/{id}/queue being a queue and
\* no session; and the read of a string of no kind ends with the
\* unknown-resource error, no request having been made.
C28_ParsingTotalAndReadUnknownFails ==
    read.pc # "idle"
    => /\ read.parsed.type \in ParsedTypes
       /\ read.parsed.type = "tasks" <=> read.uri = TasksChars
       /\ read.parsed.type = "context" <=> read.uri = ContextChars
       /\ read.parsed.type = "queue" <=> IsQueueForm(read.uri)
       /\ read.parsed.type = "queue"
             => read.uri = SubSeq(read.uri, 1, Len(SessionsPrefix))
                              \o read.parsed.sessionId
                              \o SubSeq(read.uri, Len(read.uri) - Len(QueueSuffix) + 1,
                                        Len(read.uri))
       /\ read.parsed.type = "session"
             => /\ ~IsQueueForm(read.uri)
                /\ MatchId(read.parsed.sessionId)
                /\ read.uri = SubSeq(read.uri, 1, Len(SessionsPrefix))
                                  \o read.parsed.sessionId
       /\ read.parsed.type = "task"
             => /\ MatchId(read.parsed.taskId)
                /\ LowerCase(read.uri) = TasksPrefix \o LowerCase(read.parsed.taskId)
       /\ read.parsed.type = "null"
             <=> (read.pc = "done" /\ read.result = "Unknown resource URI")
       /\ read.parsed.type = "null" => read.requests = <<>>

\* C28's case: a URI of the form of a queue has been read as a queue, its
\* request made.
C28_Witness ==
    /\ read.pc = "fetch"
    /\ read.uri = SessionsPrefix \o <<"a", "F">> \o QueueSuffix
    /\ read.parsed = [type |-> "queue", sessionId |-> <<"a", "F">>]
    /\ read.requests = <<<<"getQueueStatus", <<"a", "F">>>>>>

\* C29: the poll of a subscribed URI whose fetch has succeeded leaves the
\* fingerprint it computed in the table: at once when no notification is
\* due, and when one is due, once the send of it has ended, whichever way.
C29_SuccessfulPollOverwrites ==
    [][\A c \in cycles :
          Has(subscriptions, c.uri)
          => /\ \A payload \in Payloads :
                   FetchResolved(c, payload)
                   => \/ EmitStep(c.uri)
                      \/ lastHashes'[c.uri] = createHash(JSONstringify(JSONparse(payload)))
             /\ (SendResolved(c) \/ SendRejected(c)) => lastHashes'[c.uri] = c.hash
      ]_vars

\* C30: every URI that has a fingerprint in the table is in the
\* subscription set, in every state, also while cycles are suspended; a
\* fingerprint is written only for a URI that is subscribed, by a cycle
\* whose fetch of it has succeeded; and an unsubscribe leaves none.
C30_FingerprintsOnlyOfSubscribed ==
    /\ [](\A u \in Uris : lastHashes[u] # undefined => Has(subscriptions, u))
    /\ [][\A u \in Uris :
             /\ (lastHashes'[u] # lastHashes[u] /\ lastHashes'[u] # undefined)
                    => /\ Has(subscriptions, u)
                       /\ \E c \in cycles :
                              /\ c.uri = u
                              /\ \/ \E payload \in Payloads : FetchResolved(c, payload)
                                 \/ SendResolved(c)
             /\ unsubscribe(u) => lastHashes'[u] = undefined
        ]_vars

\* The URIs of the model that parseResourceUri returns null for.
Unparsable == {u \in Uris : parseResourceUri(u) = ParsedNull}

\* C31: a subscribed URI that does not parse is inert. No call of
\* checkForChanges is ever at the fetch or at the send of one, no fingerprint
\* is ever stored for one, and the steps of a cycle pass over it: a timer
\* that fires while a URI that parses is subscribed leaves its cycle at the
\* fetch of the first such URI, whatever unparsable entries precede it, and
\* a step that ends the poll of one URI takes the cycle on to the next entry
\* that parses, or ends the cycle when only unparsable entries remain.
C31_UnparsableUriInert ==
    /\ [](/\ \A c \in cycles : c.uri \notin Unparsable
          /\ \A u \in Unparsable : lastHashes[u] = undefined)
    /\ [][/\ \A u \in Unparsable : ~EmitStep(u)
          /\ Tick =>
                LET parsable == {i \in 1..Len(subscriptions) :
                                    subscriptions[i] \notin Unparsable}
                IN IF parsable = {}
                   THEN cycles' = cycles
                   ELSE \E d \in cycles' :
                           /\ d.tick = ticks'
                           /\ d.pc = "fetch"
                           /\ d.idx \in parsable
                           /\ \A i \in parsable : d.idx <= i
                           /\ d.uri = subscriptions[d.idx]
          /\ \A c \in cycles :
                (FetchRejected(c) \/ SendResolved(c) \/ SendRejected(c))
                => LET later == {i \in (c.idx + 1)..Len(subscriptions) :
                                    subscriptions[i] \notin Unparsable}
                   IN IF later = {}
                      THEN cycles' = cycles \ {c}
                      ELSE \E d \in cycles' :
                              /\ d.tick = c.tick
                              /\ d.idx \in later
                              /\ \A i \in later : d.idx <= i
         ]_vars

\* The unparsable URI was subscribed first and is subscribed still; the
\* cycle of tick 1 has passed over it and compared the URI after it.
C31_Witness ==
    /\ subscriptions = <<UriBad, UriTasks>>
    /\ polls[1] # NoPoll
    /\ lastHashes[UriTasks] # undefined
    /\ lastHashes[UriBad] = undefined

\* tasks.ts:125, 140, 155. The tracking statuses that end the tracker, and
\* the write of each.
TerminalWrite ==
    [completed |-> "storeCompleted", failed |-> "storeFailed",
     cancelled |-> "updateKilled"]

\* C32: the iteration that observes a terminal status is the tracker's
\* last. Once the emission of that iteration has returned the tracker
\* awaits the write of the status it observed, with the counter of the same
\* iteration; and its step from that write leaves the outcome on the
\* record and the tracker returned, with no iteration after it.
C32_TerminalStatusWrittenSameIteration ==
    [][/\ (tracker.pc = "emit" /\ tracker.mcpStatus \in DOMAIN TerminalWrite
              /\ tracker' # tracker)
          => /\ tracker'.pc = TerminalWrite[tracker.mcpStatus]
             /\ tracker'.i = tracker.i
             /\ record' = record
       /\ (tracker.pc \in {"storeCompleted", "storeFailed", "updateKilled"}
              /\ tracker' # tracker)
          => /\ tracker'.pc = "done"
             /\ tracker'.i = tracker.i
             /\ record' = WriteOf(tracker.pc)
             /\ record'.status = tracker.mcpStatus
      ]_vars

\* C33: on one manager at most one interval is ever set, and it is the one
\* the manager holds. A subscribe made while a timer is held starts none;
\* a timer is started only by a subscribe made with none held; and a step
\* that drops or replaces the timer the manager holds has cleared it.
C33_AtMostOnePollTimer ==
    /\ [](/\ Cardinality(timers) <= 1
          /\ timers = (IF pollTimer = NULL THEN {} ELSE {pollTimer}))
    /\ [][/\ \A u \in clientUris :
                (pollTimer # NULL /\ subscribe(u))
                => (timers' = timers /\ pollTimer' = pollTimer)
          /\ timers' \ timers # {}
                => /\ pollTimer = NULL
                   /\ \E u \in clientUris : subscribe(u)
          /\ (pollTimer # NULL /\ pollTimer' # pollTimer)
                => pollTimer \notin timers'
         ]_vars

\* Observed was unsubscribed while a cycle of the first timer was polling
\* it, and is the first entry of the set again: the set was empty and the
\* timer cleared, the subscribe of Observed has started a timer again, and
\* the subscribe after it was made with that timer held.
C33_Witness ==
    /\ ~exited
    /\ subscriptions = <<UriTasks, UriBad>>
    /\ timers = {"interval1"}
    /\ pollTimer = "interval1"
    /\ \E c \in cycles : c.stale /\ c.uri = UriTasks

\* C34: a notification whose send fails leaves the change to be notified
\* again. The step that handles the rejected send leaves the subscriptions,
\* the timer and every stored fingerprint as they were, the fingerprint of
\* its URI being one that is stored, and takes the cycle on to the fetch of
\* the next subscribed URI; and every fetch of a URI that succeeds with a
\* content whose fingerprint differs from the stored one sends the
\* notification for that URI.
C34_FailedSendKeepsFingerprint ==
    [][\A c \in cycles :
          /\ (c.pc = "send" /\ c \notin cycles' /\ SendRejected(c)) =>
                /\ lastHashes' = lastHashes
                /\ lastHashes[c.uri] # undefined
                /\ subscriptions' = subscriptions
                /\ pollTimer' = pollTimer
                /\ timers' = timers
                /\ LET n == NextToFetch(subscriptions, c.idx) IN
                     IF n = 0 THEN cycles' = cycles \ {c}
                     ELSE \E d \in cycles' :
                             /\ d.tick = c.tick
                             /\ d.pc = "fetch"
                             /\ d.uri = subscriptions[n]
          /\ (c.pc = "fetch" /\ c \notin cycles' /\ lastHashes[c.uri] # undefined) =>
                \A payload \in Payloads :
                    ( /\ lastHashes[c.uri] # createHash(JSONstringify(JSONparse(payload)))
                      /\ FetchResolved(c, payload) )
                    => EmitStep(c.uri)
      ]_vars

\* The send of tick 2 for Observed has ended, its cycle being at the fetch
\* of the next URI, and the fingerprint stored is not the one that tick
\* compared: the send was rejected. The cycle of tick 3 has fetched the
\* same content and is sending the notification of it again.
C34_Witness ==
    /\ subscriptions = <<UriTasks, UriQueue>>
    /\ polls[2] # NoPoll /\ polls[3] # NoPoll
    /\ polls[2].emitted /\ polls[3].emitted
    /\ polls[3].json = polls[2].json
    /\ lastHashes[UriTasks] # createHash(polls[2].json)
    /\ \E d \in cycles : d.tick = 2 /\ d.pc = "fetch" /\ d.uri = UriQueue
    /\ \E d \in cycles :
          /\ d.tick = 3 /\ d.pc = "send" /\ d.uri = UriTasks
          /\ d.hash = createHash(polls[2].json)

\* C35: the requests of one invocation of send_message are, in order, the
\* fetch of the session, the immediate send and the queue request, each
\* issued when the one before it has ended: the send after the session was
\* fetched, the queue request after the send has failed. The send carries
\* the prompt of the call and the profile normalized from the executor
\* chosen, and the queue request carries the same prompt and the same
\* profile as the send.
C35_RequestOrderAndSameBody ==
    /\ Len(requests) <= 3
    /\ \A i \in 1..Len(requests) :
          /\ requests[i].op = <<"getSession", "sendFollowUp", "queueMessage">>[i]
          /\ i < Len(requests) => requests[i].outcome # "pending"
    /\ Len(requests) >= 2
          => /\ requests[1].outcome = "ok"
             /\ requests[2].body.prompt = call.raw.prompt
             /\ requests[2].body.executor_profile_id =
                    buildExecutorProfile(call.executor, call.raw.variant)
    /\ Len(requests) = 3
          => /\ requests[2].outcome = "error"
             /\ requests[3].body.message = requests[2].body.prompt
             /\ requests[3].body.executor_profile_id =
                    requests[2].body.executor_profile_id

\* A call with an executor to trim and a variant: the send has failed and
\* the queue request, of the same prompt and profile, has been accepted.
C35_Witness ==
    /\ call.pc = "done"
    /\ call.raw.executor = <<" ","a","-","b">>
    /\ Len(requests) = 3
    /\ requests[3].outcome = "ok"
    /\ requests[2].body =
          [prompt |-> <<"g","o">>,
           executor_profile_id |-> [executor |-> <<"A","_","B">>,
                                    variant |-> <<"P","L","A","N">>]]
    /\ requests[3].body =
          [message |-> <<"g","o">>,
           executor_profile_id |-> [executor |-> <<"A","_","B">>,
                                    variant |-> <<"P","L","A","N">>]]

\* The statuses a tracker writes (tasks.ts:97, 112, 126, 141, 156, 166).
TerminalStatuses == {"completed", "failed", "cancelled"}

\* C36: a tracker writes a terminal status at most once, as its last act.
\* The record changes under a running tracker only in the step of a write
\* that resolves, which leaves the tracker returned; a tracker that has
\* returned takes no step, so it fetches nothing and writes nothing more;
\* and a record in a terminal status holds what the write that ended the
\* tracker wrote.
C36_AtMostOneTerminalWrite ==
    /\ [](record.status \in TerminalStatuses
            => /\ tracker.pc = "done"
               /\ tracker.exit \in WritePlaces
               /\ record = WriteOf(tracker.exit))
    /\ [][/\ (record' # record /\ tracker.pc # "createTask")
                => /\ record.status = "working"
                   /\ tracker.pc \in WritePlaces
                   /\ record' = WriteOf(tracker.pc)
                   /\ tracker'.pc = "done"
          /\ tracker.pc = "done" => (tracker' = tracker /\ record' = record)
         ]_vars

\* The first iteration observed no terminal status; the second observed
\* completed and its write has resolved: the tracker has returned, with
\* the record completed.
C36_Witness ==
    /\ tracker.pc = "done"
    /\ tracker.exit = "storeCompleted"
    /\ tracker.i = 1
    /\ allRunning = FALSE
    /\ record = [status |-> "completed", statusMessage |-> "Execution Completed"]

\* The places of an iteration, from its sleep to its writes.
IterationPlaces ==
    {"sleep", "getExecutionProcess", "listExecutionProcesses", "emit"}
        \cup CaughtPlaces

\* C37: an error raised inside the try block of an iteration, which is the
\* rejection of the fallback listing or of a write made there, does not end
\* the tracker and writes nothing: the tracker is at the head of the loop
\* with the counter one higher, asleep for the next iteration unless the
\* call was cancelled or the budget is used up. The counter never passes
\* the maximum and every iteration runs with a counter below it.
C37_IterationErrorsTransient ==
    /\ [](/\ tracker.i <= MAX_POLL_ITERATIONS
          /\ tracker.pc \in IterationPlaces => tracker.i < MAX_POLL_ITERATIONS)
    /\ [][(\/ ListExecutionProcessesRejected
           \/ WriteRejected /\ tracker.pc \in CaughtPlaces)
          => /\ record' = record
             /\ tracker'.i = tracker.i + 1
             /\ tracker'.pc # "done"
             /\ tracker'.pc =
                    IF tracker.i + 1 >= MAX_POLL_ITERATIONS THEN "updateTimedOut"
                    ELSE IF aborted THEN "updateCancelled"
                    ELSE "sleep"
         ]_vars

\* The first iteration made no emission and observed no status: it ended
\* by an error, and the tracker is asleep for the second, the record working.
C37_Witness ==
    /\ tracker.pc = "sleep"
    /\ tracker.i = 1
    /\ lastEmit = "none"
    /\ allRunning = FALSE
    /\ record.status = "working"

\* C38: in HTTP mode the polling of a session ends with the session: a
\* poll cycle of the manager made for a session starts only while the
\* session is in the Map.
C38_SessionCloseStopsPolling ==
    [][\A s \in SessionIds : HttpTick(s) => s \in http.sessions]_vars

====
